---- MODULE Spec2Model ----
(***************************************************************************)
(* State-machine model of stateman-cli's two core engines:                 *)
(*   - the reactive engine of src/src/utils/customVanUtils.js              *)
(*     (state / derive, the process-wide currentContext slot);             *)
(*   - the persistent collections of customImmutableUtils.js               *)
(*     (src/unnamed/part_005: fromJS, Map, List).                          *)
(* JavaScript runs the reactive engine on one call stack; the model keeps  *)
(* that stack explicitly and executes one call, return or statement group  *)
(* per step.  While the stack is not empty nothing else can happen, so a   *)
(* whole write / derive call is one uninterruptible run of steps.          *)
(***************************************************************************)
EXTENDS Integers, Sequences, FiniteSets, TLC

\* Number of derive() calls a behaviour makes.
MaxDerivs == 2

--------------------------------------------------------------------------
\* JavaScript values of the reactive cells: numbers, NaN and undefined.
NaN == -1
Undefined == -2

\* a !== b on numbers: NaN is different from everything, itself included.
StrictNe(a, b) == a # b \/ a = NaN

\* a + b on numbers: NaN and undefined propagate as NaN.
Plus(a, b) == IF a \in {NaN, Undefined} \/ b \in {NaN, Undefined} THEN NaN ELSE a + b

\* The state() cells of a run, s1 and s2, and the values written to them.
Signals == {1, 2}
SigValues == {0, 1, NaN}
DIds == 1..MaxDerivs

SigCell(s) == [k |-> "sig", n |-> s]
DrvCell(d) == [k |-> "drv", n |-> d]
Cells == {SigCell(s) : s \in Signals} \cup {DrvCell(d) : d \in DIds}

\* The callables that get registered as dependents, and currentContext = null.
NoCtx == [k |-> "none", d |-> 0]
Updater(d) == [k |-> "upd", d |-> d]
UpdateAndNotify(d) == [k |-> "uan", d |-> d]

\* The computation functions handed to derive(), as straight-line programs:
\*   dbl   () => s1.val + s1.val
\*   cond  () => s1.val === 0 ? s1.val + s2.val : s1.val
\*   boom  () => { const v = s1.val; if (v === 1) throw ...; return v }
\*   inc   () => d.val + 1      for an earlier derivation d
\*   relay () => { const v = s1.val; s2.val = v; return v + s1.val }
\*   nest  () => { if (made < MaxDerivs) derive(() => s1.val + s1.val);
\*                 return s2.val }     made: the derive() calls made so far
RdOp(c) == [op |-> "read", cell |-> c, n |-> 0]
Program(fn) ==
  CASE fn.name = "dbl"  -> << RdOp(SigCell(1)), RdOp(SigCell(1)) >>
    [] fn.name = "cond" -> << RdOp(SigCell(1)),
                              [op |-> "jumpIfNot", cell |-> SigCell(1), n |-> 0],
                              RdOp(SigCell(2)) >>
    [] fn.name = "boom" -> << RdOp(SigCell(1)),
                              [op |-> "throwIf", cell |-> SigCell(1), n |-> 1] >>
    [] fn.name = "inc"  -> << RdOp(DrvCell(fn.src)),
                              [op |-> "add", cell |-> DrvCell(fn.src), n |-> 1] >>
    [] fn.name = "relay" -> << RdOp(SigCell(1)),
                               [op |-> "write", cell |-> SigCell(2), n |-> 0],
                               RdOp(SigCell(1)) >>
    [] fn.name = "nest" -> << [op |-> "derive", cell |-> SigCell(1), n |-> 0],
                              RdOp(SigCell(2)) >>
    [] OTHER -> << >>
NoFn == [name |-> "none", src |-> 0]
NestedFn == [name |-> "dbl", src |-> 0]
Fns(n) == {[name |-> x, src |-> 0] : x \in {"dbl", "cond", "boom", "relay", "nest"}}
            \cup {[name |-> "inc", src |-> d] : d \in 1..n}

--------------------------------------------------------------------------
VARIABLES
  val,             \* s._val of every state cell, derivedVal of every derivation
  dependents,      \* s._dependents / derivedState._dependents, in insertion order
  currentContext,  \* the module-level currentContext
  nDrv,            \* derive() calls made so far
  drvFn,           \* computationFn of each derivation
  drvStatus,       \* "none", "building", "live" (derive returned), "aborted" (derive threw)
  stack,           \* the JavaScript call stack, innermost frame last
  exc,             \* an exception is propagating up the stack
  \* history of the run, read only by the properties
  log,             \* events of the current top-level call
  lastOp,          \* the current / last top-level call
  outcome,         \* "ok", "threw" or "running" for lastOp
  faulted,         \* some top-level call into the engine has thrown part-way
  lastReads,       \* cells read by the latest execution of each computationFn
  firstSeen        \* per cell, callables in the order of their first registration

reactVars == << val, dependents, currentContext, nDrv, drvFn, drvStatus, stack, exc,
                log, lastOp, outcome, faulted, lastReads, firstSeen >>

\* The host program of the collections builds one container from a plain
\* structure and then calls mutators on it and on the containers they return.
VARIABLES
  heap,     \* every Map / List instance constructed so far, by address
  root,     \* the container built first
  nCalls,   \* calls made so far
  call,     \* the last call: method, receiver, arguments, result
  plain     \* the plain structure root was converted from

collVars == << heap, root, nCalls, call, plain >>

\* The store (src/src/utils/customReduxUtils.js), the variables of one
\* createStore call, and what the host has seen of it.
VARIABLES
  storeKind,         \* "none", "store" (createStore) or "global" (createGlobalStore)
  currentState,      \* let currentState
  currentListeners,  \* let currentListeners: "same" array as nextListeners,
                     \* a "stale" array, or "null"
  nextListeners,     \* let nextListeners: the listener functions, in order
  subscriptions,     \* per subscribe call: its listener and its isSubscribed
  isDispatching,     \* let isDispatching
  \* history, read only by the properties
  initialState,      \* the initialState the store was created with
  dispatched,        \* the actions of the dispatches that returned
  invoked,           \* listener calls of the latest dispatch, with the state each saw
  bridge,            \* per bridge call: its selector, lastSelectedState and reactive cell
  called,            \* callback calls of the latest dispatch
  middlewares,       \* the middlewares of applyMiddleware, first to last
  trace,             \* what the middleware chain did in the latest dispatch
  persist,           \* persistStateMiddleware: its wait, its timer, the clock,
                     \* and the setItem calls of the adapter
  storeCall          \* the latest call on the store and its result

storeVars == << storeKind, currentState, currentListeners, nextListeners, subscriptions,
                isDispatching, initialState, dispatched, invoked, bridge, called,
                middlewares, trace, persist, storeCall >>
vars == << reactVars, collVars, storeVars >>

Top(st) == st[Len(st)]
PopKeep(st) == st
Pop(st) == SubSeq(st, 1, Len(st) - 1)
Pop2(st) == SubSeq(st, 1, Len(st) - 2)
Idle == stack = << >>

Frame(t, d, old, oldVal, list, i) ==
  [t |-> t, d |-> d, old |-> old, oldVal |-> oldVal, list |-> list, i |-> i, acc |-> 0]
ComputeFrame(d) == Frame("compute", d, NoCtx, 0, << >>, 1)
NotifyFrame(c, list) == Frame("notify", 0, NoCtx, 0, list, 1)

\* Set.prototype.add on an insertion-ordered Set.
RegisterDup(deps, r) == Append(deps, r)
RegisterNever(deps, r) == deps
Register(deps, r) ==
  IF \E j \in 1..Len(deps) : deps[j] = r THEN deps ELSE Append(deps, r)

\* [...s._dependents]: the copy forEach iterates.
Snapshot(deps) == deps

InitReact ==
  /\ val \in {f \in [Cells -> SigValues \cup {Undefined}] :
                /\ \A s \in Signals : f[SigCell(s)] \in SigValues
                /\ \A d \in DIds : f[DrvCell(d)] = Undefined}
  /\ dependents = [c \in Cells |-> << >>]
  /\ currentContext = NoCtx
  /\ nDrv = 0
  /\ drvFn = [d \in DIds |-> NoFn]
  /\ drvStatus = [d \in DIds |-> "none"]
  /\ stack = << >>
  /\ exc = FALSE
  /\ log = << >>
  /\ lastOp = [op |-> "none", s |-> 0, v |-> 0, same |-> FALSE, snap |-> << >>, d |-> 0]
  /\ outcome = "ok"
  /\ faulted = FALSE
  /\ lastReads = [d \in DIds |-> {}]
  /\ firstSeen = [c \in Cells |-> << >>]

--------------------------------------------------------------------------
\* Top-level calls made by the host program (the call stack is empty).

\* set val(newValue) of a state cell.
NotifiesAlways(old, new) == TRUE
Notifies(old, new) == StrictNe(old, new)
Write(s, v) ==
  /\ UNCHANGED << collVars, storeVars >>
  /\ Idle
  /\ lastOp' = [op |-> "write", s |-> s, v |-> v,
                same |-> (v = val[SigCell(s)] /\ v # NaN),
                snap |-> dependents[SigCell(s)], d |-> 0]
  /\ log' = << >>
  /\ IF Notifies(val[SigCell(s)], v)
       THEN /\ val' = [val EXCEPT ![SigCell(s)] = v]
            /\ stack' = << NotifyFrame(SigCell(s), Snapshot(dependents[SigCell(s)])) >>
            /\ outcome' = "running"
       ELSE /\ UNCHANGED << val, stack >>
            /\ outcome' = "ok"
  /\ UNCHANGED << dependents, currentContext, nDrv, drvFn, drvStatus, exc, faulted,
                  lastReads, firstSeen >>

\* derive(computationFn) up to the first call of computationFn (line 76).
Derive(fn) ==
  /\ UNCHANGED << collVars, storeVars >>
  /\ Idle
  /\ nDrv < MaxDerivs
  /\ fn \in Fns(nDrv)
  /\ fn.name = "inc" => drvStatus[fn.src] = "live"
  /\ LET d == nDrv + 1 IN
       /\ nDrv' = d
       /\ drvFn' = [drvFn EXCEPT ![d] = fn]
       /\ drvStatus' = [drvStatus EXCEPT ![d] = "building"]
       /\ stack' = << Frame("derive", d, currentContext, 0, << >>, 1), ComputeFrame(d) >>
       /\ currentContext' = Updater(d)
       /\ lastReads' = [lastReads EXCEPT ![d] = {}]
       /\ log' = << [e |-> "run", r |-> Updater(d), lvl |-> 0] >>
       /\ lastOp' = [op |-> "derive", s |-> 0, v |-> 0, same |-> FALSE,
                     snap |-> << >>, d |-> d]
       /\ outcome' = "running"
  /\ UNCHANGED << val, dependents, exc, faulted, firstSeen >>

\* derived.val = v by the host.  derivedState has a getter for val and no
\* setter (lines 85-125), and the module is an ES module, hence strict code:
\* the assignment throws a TypeError and changes nothing.
Assigned == 100
AssignDerived(d, v) ==
  /\ UNCHANGED << collVars, storeVars >>
  /\ Idle
  /\ drvStatus[d] = "live"
  /\ lastOp' = [op |-> "assign", s |-> 0, v |-> v, same |-> FALSE, snap |-> << >>, d |-> d]
  /\ log' = << >>
  /\ outcome' = "threw"
  /\ UNCHANGED << val, dependents, currentContext, nDrv, drvFn, drvStatus, stack, exc,
                  faulted, lastReads, firstSeen >>

--------------------------------------------------------------------------
\* Execution of a computationFn: the frame on top of the stack.

Running ==
  /\ ~exc
  /\ stack # << >>
  /\ Top(stack).t = "compute"
  /\ Top(stack).i <= Len(Program(drvFn[Top(stack).d]))
Ins == Program(drvFn[Top(stack).d])[Top(stack).i]
SetTop(f) == [stack EXCEPT ![Len(stack)] = f]

\* get val() of a state cell or of a derivation, called by computationFn.
ComputeRead ==
  /\ UNCHANGED << collVars, storeVars >>
  /\ Running
  /\ Ins.op = "read"
  /\ LET f == Top(stack)
         c == Ins.cell
     IN /\ dependents' = IF currentContext # NoCtx
                           THEN [dependents EXCEPT ![c] = Register(@, currentContext)]
                           ELSE dependents
        /\ firstSeen' = IF /\ currentContext # NoCtx
                           /\ \A j \in 1..Len(firstSeen[c]) : firstSeen[c][j] # currentContext
                          THEN [firstSeen EXCEPT ![c] = Append(@, currentContext)]
                          ELSE firstSeen
        /\ lastReads' = [lastReads EXCEPT ![f.d] = @ \cup {c}]
        /\ stack' = SetTop([f EXCEPT !.i = @ + 1, !.acc = Plus(f.acc, val[c])])
  /\ UNCHANGED << val, currentContext, nDrv, drvFn, drvStatus, exc, log, lastOp,
                  outcome, faulted >>

\* The arithmetic and the branch of a computationFn.
ComputeArith ==
  /\ UNCHANGED << collVars, storeVars >>
  /\ Running
  /\ Ins.op \in {"add", "jumpIfNot"}
  /\ LET f == Top(stack) IN
       stack' = SetTop(IF Ins.op = "add"
                         THEN [f EXCEPT !.i = @ + 1, !.acc = Plus(f.acc, Ins.n)]
                         ELSE [f EXCEPT !.i = IF StrictNe(f.acc, Ins.n) THEN @ + 2 ELSE @ + 1])
  /\ UNCHANGED << val, dependents, currentContext, nDrv, drvFn, drvStatus, exc, log,
                  lastOp, outcome, faulted, lastReads, firstSeen >>

\* The throw statement of a computationFn.
ComputeThrowIf ==
  /\ UNCHANGED << collVars, storeVars >>
  /\ Running
  /\ Ins.op = "throwIf"
  /\ LET f == Top(stack) IN
       IF StrictNe(f.acc, Ins.n)
         THEN stack' = SetTop([f EXCEPT !.i = @ + 1]) /\ exc' = FALSE
         ELSE stack' = stack /\ exc' = TRUE
  /\ UNCHANGED << val, dependents, currentContext, nDrv, drvFn, drvStatus, log, lastOp,
                  outcome, faulted, lastReads, firstSeen >>

\* set val(newValue) of a state cell, called by computationFn: the setter
\* runs its forEach to the end before computationFn goes on.
NestedNotifyDeferred(st, fr) == << fr >> \o st
NestedNotify(st, fr) == Append(st, fr)
ComputeWrite ==
  /\ UNCHANGED << collVars, storeVars >>
  /\ Running
  /\ Ins.op = "write"
  /\ LET f == Top(stack)
         c == Ins.cell
         next == SetTop([f EXCEPT !.i = @ + 1])
     IN IF Notifies(val[c], f.acc)
          THEN /\ val' = [val EXCEPT ![c] = f.acc]
               /\ stack' = NestedNotify(next, NotifyFrame(c, Snapshot(dependents[c])))
               /\ log' = Append(log, [e |-> "write", r |-> [k |-> "sig", d |-> c.n],
                                      lvl |-> Len(stack) + 1, snap |-> dependents[c]])
          ELSE /\ stack' = next
               /\ UNCHANGED << val, log >>
  /\ UNCHANGED << dependents, currentContext, nDrv, drvFn, drvStatus, exc, lastOp,
                  outcome, faulted, lastReads, firstSeen >>

\* derive(..) called by computationFn, up to the first call of the inner
\* computationFn (line 76); the outer computationFn goes on when it returns.
ComputeDerive ==
  /\ UNCHANGED << collVars, storeVars >>
  /\ Running
  /\ Ins.op = "derive"
  /\ LET f == Top(stack)
         next == SetTop([f EXCEPT !.i = @ + 1])
         d == nDrv + 1
     IN IF nDrv < MaxDerivs
          THEN /\ nDrv' = d
               /\ drvFn' = [drvFn EXCEPT ![d] = NestedFn]
               /\ drvStatus' = [drvStatus EXCEPT ![d] = "building"]
               /\ stack' = next \o << Frame("derive", d, currentContext, 0, << >>, 1),
                                      ComputeFrame(d) >>
               /\ currentContext' = Updater(d)
               /\ lastReads' = [lastReads EXCEPT ![d] = {}]
               /\ log' = Append(log, [e |-> "run", r |-> Updater(d), lvl |-> 0])
          ELSE /\ stack' = next
               /\ UNCHANGED << nDrv, drvFn, drvStatus, currentContext, lastReads, log >>
  /\ UNCHANGED << val, dependents, exc, lastOp, outcome, faulted, firstSeen >>

\* computationFn has returned to the frame below it.
Returned(t) ==
  /\ ~exc
  /\ Len(stack) >= 2
  /\ Top(stack).t = "compute"
  /\ Top(stack).i > Len(Program(drvFn[Top(stack).d]))
  /\ stack[Len(stack) - 1].t = t
Caller == stack[Len(stack) - 1]
Result == Top(stack).acc

\* What a frame's finally block leaves in currentContext when the frame is left:
\* updater (line 65), _updateAndNotify (line 134) and derive (lines 78, 150)
\* restore the value they saved; forEach and computationFn have no finally.
FinallyNoRestore(f, ctx) == ctx
FinallyNull(f, ctx) == IF f.t \in {"upd", "uan", "derive"} THEN NoCtx ELSE ctx
Finally(f, ctx) == IF f.t \in {"upd", "uan", "derive"} THEN f.old ELSE ctx

\* The top-level call is over once the stack is empty.
Finish(st, how) ==
  IF st = << >>
    THEN outcome' = how /\ faulted' = (faulted \/ how = "threw")
    ELSE UNCHANGED << outcome, faulted >>

\* updater(): derivedVal = computationFn(); finally; return.
UpdaterReturn ==
  /\ UNCHANGED << collVars, storeVars >>
  /\ Returned("upd")
  /\ val' = [val EXCEPT ![DrvCell(Caller.d)] = Result]
  /\ currentContext' = Finally(Caller, currentContext)
  /\ stack' = Pop2(stack)
  /\ Finish(stack', "ok")
  /\ UNCHANGED << dependents, nDrv, drvFn, drvStatus, exc, log, lastOp, lastReads,
                  firstSeen >>

\* _updateAndNotify(): derivedVal = computationFn(); finally; then the
\* comparison of line 137 and the forEach over a copy of its own dependents.
DerivedNotifies(old, new) == StrictNe(old, new)
UpdateAndNotifyReturn ==
  /\ UNCHANGED << collVars, storeVars >>
  /\ Returned("uan")
  /\ val' = [val EXCEPT ![DrvCell(Caller.d)] = Result]
  /\ currentContext' = Finally(Caller, currentContext)
  /\ stack' = IF DerivedNotifies(Caller.oldVal, Result)
                THEN Append(Pop2(stack),
                            NotifyFrame(DrvCell(Caller.d),
                                        Snapshot(dependents[DrvCell(Caller.d)])))
                ELSE Pop2(stack)
  /\ Finish(stack', "ok")
  /\ UNCHANGED << dependents, nDrv, drvFn, drvStatus, exc, log, lastOp, lastReads,
                  firstSeen >>

\* Entering a registered callable: it saves currentContext, installs itself
\* and calls computationFn (updater lines 60-63, _updateAndNotify lines 128-132).
Enter(st, r, ctx) ==
  IF r.k = "upd"
    THEN st \o << Frame("upd", r.d, ctx, 0, << >>, 1), ComputeFrame(r.d) >>
    ELSE st \o << Frame("uan", r.d, ctx, val[DrvCell(r.d)], << >>, 1), ComputeFrame(r.d) >>

\* derive() after the first computationFn() returned (line 76): finally of
\* line 78, then lines 145-148, which install _updateAndNotify and call it.
DeriveFirstReturn ==
  /\ UNCHANGED << collVars, storeVars >>
  /\ Returned("derive")
  /\ Caller.i = 1
  /\ LET d == Caller.d
         restored == Finally(Caller, currentContext)
     IN /\ val' = [val EXCEPT ![DrvCell(d)] = Result]
        /\ stack' = Append(Pop2(stack), Frame("derive", d, restored, 0, << >>, 2))
                      \o << Frame("uan", d, UpdateAndNotify(d), Result, << >>, 1),
                            ComputeFrame(d) >>
        /\ currentContext' = UpdateAndNotify(d)
        /\ lastReads' = [lastReads EXCEPT ![d] = {}]
        /\ log' = Append(log, [e |-> "run", r |-> UpdateAndNotify(d), lvl |-> 0])
  /\ UNCHANGED << dependents, nDrv, drvFn, drvStatus, exc, lastOp, outcome, faulted,
                  firstSeen >>

\* derive() after _updateAndNotify() returned: finally of line 150, return.
DeriveReturn ==
  /\ UNCHANGED << collVars, storeVars >>
  /\ ~exc
  /\ stack # << >>
  /\ Top(stack).t = "derive"
  /\ Top(stack).i = 2
  /\ currentContext' = Finally(Top(stack), currentContext)
  /\ drvStatus' = [drvStatus EXCEPT ![Top(stack).d] = "live"]
  /\ stack' = Pop(stack)
  /\ Finish(stack', "ok")
  /\ UNCHANGED << val, dependents, nDrv, drvFn, exc, log, lastOp, lastReads, firstSeen >>

\* forEach((dep) => dep()): call the next callable of the copy.
NotifyNext ==
  /\ UNCHANGED << collVars, storeVars >>
  /\ ~exc
  /\ stack # << >>
  /\ Top(stack).t = "notify"
  /\ Top(stack).i <= Len(Top(stack).list)
  /\ LET f == Top(stack)
         r == f.list[f.i]
     IN /\ stack' = Enter(SetTop([f EXCEPT !.i = @ + 1]), r, currentContext)
        /\ currentContext' = r
        /\ lastReads' = [lastReads EXCEPT ![r.d] = {}]
        /\ log' = log \o << [e |-> "call", r |-> r, lvl |-> Len(stack)],
                            [e |-> "run", r |-> r, lvl |-> 0] >>
  /\ UNCHANGED << val, dependents, nDrv, drvFn, drvStatus, exc, lastOp, outcome,
                  faulted, firstSeen >>

\* forEach has called every callable of the copy: the setter (or
\* _updateAndNotify) returns.
NotifyDone ==
  /\ UNCHANGED << collVars, storeVars >>
  /\ ~exc
  /\ stack # << >>
  /\ Top(stack).t = "notify"
  /\ Top(stack).i > Len(Top(stack).list)
  /\ stack' = Pop(stack)
  /\ Finish(stack', "ok")
  /\ UNCHANGED << val, dependents, currentContext, nDrv, drvFn, drvStatus, exc, log,
                  lastOp, lastReads, firstSeen >>

\* An exception leaves the innermost frame, running its finally block; the
\* engine has no catch, so it reaches the caller of the top-level call.
UnwindCaught ==
  /\ UNCHANGED << collVars, storeVars >>
  /\ exc
  /\ stack # << >>
  /\ currentContext' = Finally(Top(stack), currentContext)
  /\ drvStatus' = drvStatus
  /\ stack' = Pop(stack)
  /\ exc' = (stack' # << >> /\ Top(stack).t \notin {"upd", "uan"})
  /\ Finish(stack', IF Top(stack).t \in {"upd", "uan"} THEN "ok" ELSE "threw")
  /\ UNCHANGED << val, dependents, nDrv, drvFn, log, lastOp, lastReads, firstSeen >>
Unwind ==
  /\ UNCHANGED << collVars, storeVars >>
  /\ exc
  /\ stack # << >>
  /\ currentContext' = Finally(Top(stack), currentContext)
  /\ drvStatus' = IF Top(stack).t = "derive"
                    THEN [drvStatus EXCEPT ![Top(stack).d] = "aborted"]
                    ELSE drvStatus
  /\ stack' = Pop(stack)
  /\ exc' = (stack' # << >>)
  /\ Finish(stack', "threw")
  /\ UNCHANGED << val, dependents, nDrv, drvFn, log, lastOp, lastReads, firstSeen >>

NextReact ==
  \/ \E s \in Signals, v \in SigValues : Write(s, v)
  \/ \E fn \in Fns(MaxDerivs) : Derive(fn)
  \/ \E d \in DIds : AssignDerived(d, Assigned)
  \/ ComputeRead
  \/ ComputeArith
  \/ ComputeThrowIf
  \/ ComputeWrite
  \/ ComputeDerive
  \/ UpdaterReturn
  \/ UpdateAndNotifyReturn
  \/ DeriveFirstReturn
  \/ DeriveReturn
  \/ NotifyNext
  \/ NotifyDone
  \/ Unwind


--------------------------------------------------------------------------
(***************************************************************************)
(* Persistent collections (src/unnamed/part_005).  Objects live in a heap: *)
(* every `new Map(..)` / `new List(..)` allocates the next address, and a  *)
(* reference is the address, so that reference identity (===) is address   *)
(* equality.  A method returns the heap after the call and its result.     *)
(***************************************************************************)

\* Mutator calls a behaviour makes.
MaxCalls == 2

\* JavaScript values: scalars, references to Map / List instances, and plain
\* (not yet converted) arrays and objects.
Num(n) == [t |-> "num", v |-> n]
Str(x) == [t |-> "str", v |-> x]
JsUndefined == [t |-> "undef", v |-> 0]
JsNull == [t |-> "null", v |-> 0]
JsNaN == [t |-> "nan", v |-> 0]
Bool(b) == [t |-> "bool", v |-> b]
Ref(a) == [t |-> "ref", v |-> a]
Arr(ps) == [t |-> "arr", v |-> ps]
Obj(f) == [t |-> "obj", v |-> f]

\* Property names: a key used on an object is converted to a string.
Absent == [t |-> "absent", v |-> 0]
KeyOrder == << "0", "1", "2", "a", "b", "-1" >>
KeyStrs == {KeyOrder[j] : j \in 1..Len(KeyOrder)}
NumStr(n) == CASE n = 0 -> "0" [] n = 1 -> "1" [] n = 2 -> "2" [] n = -1 -> "-1"
KeyStr(key) == IF key.t = "num" THEN NumStr(key.v) ELSE key.v
EmptyData == [k \in KeyStrs |-> Absent]
Put(data, k, x) == [data EXCEPT ![k] = x]
Props(pairs) == [k \in KeyStrs |-> IF \E j \in 1..Len(pairs) : pairs[j][1] = k
                                    THEN (pairs[CHOOSE j \in 1..Len(pairs) : pairs[j][1] = k])[2]
                                    ELSE Absent]

MapNode(data) == [kind |-> "Map", data |-> data]
ListNode(data) == [kind |-> "List", data |-> data]
New(h, node) == [h |-> Append(h, node), v |-> Ref(Len(h) + 1)]
This(h, a) == [h |-> h, v |-> Ref(a)]

isImmutable(x) == x.t = "ref"
IsMap(h, x) == x.t = "ref" /\ h[x.v].kind = "Map"
IsList(h, x) == x.t = "ref" /\ h[x.v].kind = "List"

RECURSIVE fromJS(_, _)
RECURSIVE fromJSArray(_, _, _)
RECURSIVE fromJSProps(_, _, _, _)
fromJSArray(h, xs, done) ==
  IF xs = << >> THEN [h |-> h, v |-> done]
  ELSE LET r == fromJS(h, Head(xs)) IN fromJSArray(r.h, Tail(xs), Append(done, r.v))
fromJSProps(h, f, keys, done) ==
  IF keys = << >> THEN [h |-> h, v |-> done]
  ELSE IF f[Head(keys)] = Absent THEN fromJSProps(h, f, Tail(keys), done)
  ELSE LET r == fromJS(h, f[Head(keys)])
       IN fromJSProps(r.h, f, Tail(keys), Put(done, Head(keys), r.v))
fromJSRewrap(h, x) ==
  IF x.t = "ref" THEN New(h, h[x.v])
  ELSE IF x.t \notin {"arr", "obj"} THEN [h |-> h, v |-> x]
  ELSE IF x.t = "arr"
    THEN LET r == fromJSArray(h, x.v, << >>) IN New(r.h, ListNode(r.v))
    ELSE LET r == fromJSProps(h, x.v, KeyOrder, EmptyData) IN New(r.h, MapNode(r.v))
fromJS(h, x) ==
  IF x.t \notin {"arr", "obj"} THEN [h |-> h, v |-> x]
  ELSE IF x.t = "arr"
    THEN LET r == fromJSArray(h, x.v, << >>) IN New(r.h, ListNode(r.v))
    ELSE LET r == fromJSProps(h, x.v, KeyOrder, EmptyData) IN New(r.h, MapNode(r.v))

\* Map.get / Map.set
MapGet(h, a, key, dflt) ==
  IF h[a].data[KeyStr(key)] # Absent THEN h[a].data[KeyStr(key)] ELSE dflt
MapSetInPlace(h, a, key, value) ==
  LET r == fromJS(h, value)
  IN [h |-> [r.h EXCEPT ![a] = MapNode(Put(h[a].data, KeyStr(key), r.v))], v |-> Ref(a)]
MapSetNoSpread(h, a, key, value) ==
  LET r == fromJS(h, value) IN New(r.h, MapNode(Put(EmptyData, KeyStr(key), r.v)))
MapSet(h, a, key, value) ==
  LET r == fromJS(h, value) IN New(r.h, MapNode(Put(h[a].data, KeyStr(key), r.v)))

\* List.get / List.set / List.push / List.delete
ListGet(h, a, index, dflt) ==
  IF index.t = "num" /\ index.v >= 0 /\ index.v < Len(h[a].data)
    THEN h[a].data[index.v + 1] ELSE dflt
ListSetNoAppend(h, a, index, value) ==
  IF index.v < 0 \/ index.v >= Len(h[a].data) THEN This(h, a)
  ELSE LET r == fromJS(h, value)
       IN New(r.h, ListNode([h[a].data EXCEPT ![index.v + 1] = r.v]))
ListSet(h, a, index, value) ==
  IF index.v < 0 \/ index.v > Len(h[a].data) THEN This(h, a)
  ELSE LET r == fromJS(h, value)
       IN New(r.h, ListNode(IF index.v = Len(h[a].data)
                              THEN Append(h[a].data, r.v)
                              ELSE [h[a].data EXCEPT ![index.v + 1] = r.v]))
ListPush(h, a, value) ==
  LET r == fromJS(h, value) IN New(r.h, ListNode(Append(h[a].data, r.v)))
ListDeleteLast(h, a, index) ==
  IF index.v < 0 \/ index.v >= Len(h[a].data) THEN This(h, a)
  ELSE New(h, ListNode(SubSeq(h[a].data, 1, Len(h[a].data) - 1)))
ListDelete(h, a, index) ==
  IF index.v < 0 \/ index.v >= Len(h[a].data) THEN This(h, a)
  ELSE New(h, ListNode(SubSeq(h[a].data, 1, index.v)
                         \o SubSeq(h[a].data, index.v + 2, Len(h[a].data))))

\* getIn: the same loop in Map and in List.
RECURSIVE GetInLoop(_, _, _, _)
GetInLoop(h, cur, path, dflt) ==
  IF path = << >> THEN cur
  ELSE IF IsMap(h, cur) /\ h[cur.v].data[KeyStr(Head(path))] # Absent
    THEN GetInLoop(h, h[cur.v].data[KeyStr(Head(path))], Tail(path), dflt)
  ELSE IF /\ IsList(h, cur)
          /\ Head(path).t = "num" /\ Head(path).v >= 0
          /\ Head(path).v < Len(h[cur.v].data)
    THEN GetInLoop(h, h[cur.v].data[Head(path).v + 1], Tail(path), dflt)
  ELSE dflt
MapGetInNoDefault(h, a, path, dflt) == GetInLoop(h, Ref(a), path, JsUndefined)
MapGetIn(h, a, path, dflt) == GetInLoop(h, Ref(a), path, dflt)
ListGetIn(h, a, path, dflt) == GetInLoop(h, Ref(a), path, dflt)

\* Map.setIn / List.setIn
RECURSIVE MapSetIn(_, _, _, _)
RECURSIVE ListSetIn(_, _, _, _)
SetInOf(h, x, path, value) ==
  IF h[x.v].kind = "Map" THEN MapSetIn(h, x.v, path, value)
                         ELSE ListSetIn(h, x.v, path, value)
NewBranchMap(h, cur, path, value) ==
  IF isImmutable(cur) THEN SetInOf(h, cur, Tail(path), value)
  ELSE LET e == New(h, MapNode(EmptyData)) IN MapSetIn(e.h, e.v.v, Tail(path), value)
NewBranch(h, cur, path, value) ==
  IF isImmutable(cur) THEN SetInOf(h, cur, Tail(path), value)
  ELSE IF path[2].t = "num"
    THEN LET e == New(h, ListNode(<< >>)) IN ListSetIn(e.h, e.v.v, Tail(path), value)
    ELSE LET e == New(h, MapNode(EmptyData)) IN MapSetIn(e.h, e.v.v, Tail(path), value)
MapSetInKeepsThis(h, a, path, value) ==
  IF path = << >> THEN This(h, a)
  ELSE IF Len(path) = 1 THEN MapSet(h, a, path[1], value)
  ELSE LET nb == NewBranch(h, MapGet(h, a, path[1], JsUndefined), path, value)
       IN MapSet(nb.h, a, path[1], nb.v)
MapSetIn(h, a, path, value) ==
  IF path = << >> THEN fromJS(h, value)
  ELSE IF Len(path) = 1 THEN MapSet(h, a, path[1], value)
  ELSE LET nb == NewBranch(h, MapGet(h, a, path[1], JsUndefined), path, value)
       IN MapSet(nb.h, a, path[1], nb.v)
ListSetIn(h, a, path, value) ==
  IF path = << >> THEN fromJS(h, value)
  ELSE IF path[1].t # "num" \/ path[1].v < 0 THEN This(h, a)
  ELSE IF Len(path) = 1 THEN ListSet(h, a, path[1], value)
  ELSE LET nb == NewBranch(h, ListGet(h, a, path[1], JsUndefined), path, value)
       IN ListSet(nb.h, a, path[1], nb.v)

\* Map.toJS / List.toJS
RECURSIVE toJS(_, _)
toJSShallow(h, x) ==
  IF ~isImmutable(x) THEN x
  ELSE IF h[x.v].kind = "Map" THEN Obj(h[x.v].data) ELSE Arr(h[x.v].data)
toJS(h, x) ==
  IF ~isImmutable(x) THEN x
  ELSE IF h[x.v].kind = "Map"
    THEN Obj([k \in KeyStrs |-> IF h[x.v].data[k] = Absent THEN Absent
                                                           ELSE toJS(h, h[x.v].data[k])])
    ELSE Arr([j \in 1..Len(h[x.v].data) |-> toJS(h, h[x.v].data[j])])

\* The updater functions handed to update / updateIn:
\*   inc   x => typeof x === "number" ? x + 1 : 0
\*   obj   x => ({ a: 7 })
UpdaterFns == {"inc", "obj"}
\* and a value that is not a function, handed over in their place:
\*   five  5
NonFunctions == {"five"}
\* Calling a value that is not a function throws a TypeError; the call that
\* made it ends there and the exception is what its caller gets.
TypeError == [t |-> "throw", v |-> "TypeError"]
Throw(h) == [h |-> h, v |-> TypeError]
ApplyFn(fn, x) ==
  CASE fn = "inc" -> IF x.t = "num" THEN Num(x.v + 1) ELSE Num(0)
    [] fn = "obj" -> Obj(Props(<< <<"a", Num(7)>> >>))
    [] fn \in NonFunctions -> TypeError

\* update / updateIn
MapUpdate(h, a, key, fn) ==
  LET y == ApplyFn(fn, MapGet(h, a, key, JsUndefined))
  IN IF y = TypeError THEN Throw(h) ELSE MapSet(h, a, key, y)
ListUpdate(h, a, index, fn) ==
  IF ListGet(h, a, index, JsUndefined) = JsUndefined THEN This(h, a)
  ELSE LET y == ApplyFn(fn, ListGet(h, a, index, JsUndefined))
       IN IF y = TypeError THEN Throw(h) ELSE ListSet(h, a, index, y)
MapUpdateIn(h, a, path, fn) ==
  IF path = << >> THEN [h |-> h, v |-> ApplyFn(fn, Ref(a))]
  ELSE LET y == ApplyFn(fn, MapGetIn(h, a, path, JsUndefined))
       IN IF y = TypeError THEN Throw(h) ELSE MapSetIn(h, a, path, y)
ListUpdateIn(h, a, path, fn) ==
  IF path = << >> THEN [h |-> h, v |-> ApplyFn(fn, Ref(a))]
  ELSE LET y == ApplyFn(fn, ListGetIn(h, a, path, JsUndefined))
       IN IF y = TypeError THEN Throw(h) ELSE ListSetIn(h, a, path, y)

\* a === b on scalars and references: NaN is not equal to itself, a
\* reference is equal to the same instance only.
StrictEqV(x, y) == x = y /\ x.t # "nan"

\* Map.equals / List.equals
Keys(data) == {k \in KeyStrs : data[k] # Absent}
RECURSIVE MapEquals(_, _, _)
RECURSIVE ListEquals(_, _, _)
EqualsOf(h, x, y) ==
  IF h[x.v].kind = "Map" THEN MapEquals(h, x.v, y) ELSE ListEquals(h, x.v, y)
EntryEquals(h, x, y) ==
  IF isImmutable(x) /\ isImmutable(y) THEN EqualsOf(h, x, y) ELSE StrictEqV(x, y)
MapEqualsNoSize(h, a, other) ==
  IF other = Ref(a) THEN TRUE
  ELSE IF ~IsMap(h, other) THEN FALSE
  ELSE \A k \in Keys(h[a].data) :
         /\ h[other.v].data[k] # Absent
         /\ EntryEquals(h, h[a].data[k], h[other.v].data[k])
MapEquals(h, a, other) ==
  IF other = Ref(a) THEN TRUE
  ELSE IF ~IsMap(h, other) THEN FALSE
  ELSE IF Cardinality(Keys(h[a].data)) # Cardinality(Keys(h[other.v].data)) THEN FALSE
  ELSE \A k \in Keys(h[a].data) :
         /\ h[other.v].data[k] # Absent
         /\ EntryEquals(h, h[a].data[k], h[other.v].data[k])
ListEquals(h, a, other) ==
  IF other = Ref(a) THEN TRUE
  ELSE IF ~IsList(h, other) THEN FALSE
  ELSE IF Len(h[a].data) # Len(h[other.v].data) THEN FALSE
  ELSE \A j \in 1..Len(h[a].data) : EntryEquals(h, h[a].data[j], h[other.v].data[j])

--------------------------------------------------------------------------
A == Str("a")
B == Str("b")
InitPlain ==
  { Obj(EmptyData),
    Arr(<< >>),
    Obj(Props(<< <<"a", Num(1)>>, <<"b", Obj(Props(<< <<"a", Num(2)>> >>))>> >>)),
    Arr(<< Num(1), Obj(Props(<< <<"a", Num(2)>> >>)) >>),
    Obj(Props(<< <<"a", Arr(<< Num(1) >>)>>, <<"b", Arr(<< >>)>> >>)),
    Arr(<< JsUndefined, Num(1) >>) }
SetValues == { Num(7), Obj(Props(<< <<"a", Arr(<< Num(7) >>)>> >>)) }
MapKeys == { A, B, Num(0) }
Indices == { Num(n) : n \in -1..3 }
Paths ==
  { << >>, << A >>, << B, A >>, << A, Num(0) >>, << A, Num(1) >>,
    << Num(1), A >>, << Num(2), A >>, << A, Num(0), B >> }
UpdatePaths == { << >>, << B, A >>, << Num(1), A >> }

NoCall == [op |-> "none", recv |-> 0, key |-> JsUndefined, path |-> << >>,
           value |-> JsUndefined, fn |-> "none", ret |-> JsUndefined]
Called(op, a, key, path, value, fn, ret) ==
  [op |-> op, recv |-> a, key |-> key, path |-> path, value |-> value, fn |-> fn,
   ret |-> ret]

InitColl ==
  /\ \E p \in InitPlain :
       /\ heap = fromJS(<< >>, p).h
       /\ root = fromJS(<< >>, p).v.v
       /\ plain = p
  /\ nCalls = 0
  /\ call = NoCall

\* The container the host calls next: the latest result, or the first one.
Receivers == IF isImmutable(call.ret) THEN {call.ret.v} ELSE {root}
Commit(r, c) ==
  /\ nCalls < MaxCalls
  /\ heap' = r.h
  /\ nCalls' = nCalls + 1
  /\ call' = [c EXCEPT !.ret = r.v]
  /\ root' = root
  /\ plain' = plain
  /\ UNCHANGED << reactVars, storeVars >>

DoSet(a, key, value) ==
  /\ a \in Receivers
  /\ IF heap[a].kind = "Map"
       THEN key \in MapKeys /\ Commit(MapSet(heap, a, key, value),
                                      Called("set", a, key, << >>, value, "none", 0))
       ELSE key \in Indices /\ Commit(ListSet(heap, a, key, value),
                                      Called("set", a, key, << >>, value, "none", 0))
DoSetIn(a, path, value) ==
  /\ a \in Receivers
  /\ Commit(SetInOf(heap, Ref(a), path, value),
            Called("setIn", a, JsUndefined, path, value, "none", 0))
DoPush(a, value) ==
  /\ a \in Receivers
  /\ heap[a].kind = "List"
  /\ Commit(ListPush(heap, a, value),
            Called("push", a, JsUndefined, << >>, value, "none", 0))
DoDelete(a, index) ==
  /\ a \in Receivers
  /\ heap[a].kind = "List"
  /\ Commit(ListDelete(heap, a, index),
            Called("delete", a, index, << >>, JsUndefined, "none", 0))
DoUpdate(a, key, fn) ==
  /\ a \in Receivers
  /\ IF heap[a].kind = "Map"
       THEN key \in MapKeys /\ Commit(MapUpdate(heap, a, key, fn),
                                      Called("update", a, key, << >>, JsUndefined, fn, 0))
       ELSE key \in Indices /\ Commit(ListUpdate(heap, a, key, fn),
                                      Called("update", a, key, << >>, JsUndefined, fn, 0))
DoUpdateIn(a, path, fn) ==
  /\ a \in Receivers
  /\ Commit(IF heap[a].kind = "Map" THEN MapUpdateIn(heap, a, path, fn)
                                     ELSE ListUpdateIn(heap, a, path, fn),
            Called("updateIn", a, JsUndefined, path, JsUndefined, fn, 0))

\* new Map(data) / new List(data) called by the host: the constructor copies
\* the entries of data as they are.
NewData ==
  { Obj(EmptyData),
    Obj(Props(<< <<"a", Num(1)>> >>)),
    Obj(Props(<< <<"b", Obj(Props(<< <<"a", Num(2)>> >>))>> >>)),
    Arr(<< >>),
    Arr(<< Num(1), Num(2) >>) }
DoNew(data) ==
  /\ data \in NewData
  /\ Commit(New(heap, IF data.t = "obj" THEN MapNode(data.v) ELSE ListNode(data.v)),
            Called("new", 0, JsUndefined, << >>, data, "none", 0))

NextColl ==
  \/ \E data \in NewData : DoNew(data)
  \/ \E a \in Receivers, key \in MapKeys \cup Indices, value \in SetValues :
       DoSet(a, key, value)
  \/ \E a \in Receivers, path \in Paths, value \in SetValues : DoSetIn(a, path, value)
  \/ \E a \in Receivers, value \in SetValues : DoPush(a, value)
  \/ \E a \in Receivers, index \in Indices : DoDelete(a, index)
  \/ \E a \in Receivers, key \in MapKeys \cup Indices, fn \in UpdaterFns \cup NonFunctions :
       DoUpdate(a, key, fn)
  \/ \E a \in Receivers, path \in UpdatePaths, fn \in UpdaterFns \cup NonFunctions :
       DoUpdateIn(a, path, fn)

--------------------------------------------------------------------------
\* A host that converts plain structures and then only reads: fromJS, toJS,
\* equals and getIn on any container built so far.
QueryPlain ==
  InitPlain \cup
    { Obj(Props(<< <<"a", Num(1)>> >>)),
      Obj(Props(<< <<"a", JsNaN>> >>)),
      Arr(<< Obj(Props(<< <<"a", JsUndefined>>, <<"b", JsNull>> >>)) >>) }
Scalars == { Num(1), Str("a"), JsUndefined, JsNull, JsNaN }
Default == Str("default")
GetPaths ==
  { << >>, << A >>, << B >>, << B, A >>, << A, Num(0) >>, << A, A >>,
    << Num(0) >>, << Num(1), A >>, << Num(2) >>, << Num(-1) >> }
Addrs == 1..Len(heap)

InitQuery ==
  /\ \E p \in QueryPlain :
       /\ heap = fromJS(<< >>, p).h
       /\ root = fromJS(<< >>, p).v.v
       /\ plain = p
  /\ nCalls = 0
  /\ call = NoCall

DoFromJS(x) ==
  /\ x.t = "ref" => x.v \in Addrs
  /\ Commit(fromJS(heap, x), Called("fromJS", 0, JsUndefined, << >>, x, "none", 0))
DoToJS(a) ==
  /\ a \in Addrs
  /\ Commit([h |-> heap, v |-> toJS(heap, Ref(a))],
            Called("toJS", a, JsUndefined, << >>, JsUndefined, "none", 0))
DoEquals(a, other) ==
  /\ a \in Addrs
  /\ Commit([h |-> heap, v |-> Bool(EqualsOf(heap, Ref(a), other))],
            Called("equals", a, JsUndefined, << >>, other, "none", 0))
DoGetIn(a, path, dflt) ==
  /\ a \in Addrs
  /\ Commit([h |-> heap, v |-> IF heap[a].kind = "Map" THEN MapGetIn(heap, a, path, dflt)
                                                       ELSE ListGetIn(heap, a, path, dflt)],
            Called("getIn", a, JsUndefined, path, dflt, "none", 0))

NextQuery ==
  \/ \E x \in QueryPlain \cup Scalars \cup {Ref(a) : a \in Addrs} : DoFromJS(x)
  \/ \E a \in Addrs : DoToJS(a)
  \/ \E a \in Addrs, other \in {Ref(b) : b \in Addrs} \cup {Num(1), JsUndefined} :
       DoEquals(a, other)
  \/ \E a \in Addrs, path \in GetPaths, dflt \in {Default, JsUndefined} :
       DoGetIn(a, path, dflt)

--------------------------------------------------------------------------
(***************************************************************************)
(* The store: createStore (src/src/utils/customReduxUtils.js) and          *)
(* createGlobalStore (src/src/globalStore.js), which wraps the reducer and  *)
(* hands it to createStore.  States are values of the heap above.           *)
(***************************************************************************)

\* Dispatches that return, and subscribe calls, a behaviour makes.
MaxDispatch == 2
MaxSubs == 3
\* Units of time a behaviour lasts.
MaxTime == 4

\* Actions are told apart by their type; NoType is an action without one.
INIT == "@@redux/INIT"
ActionTypes == {"INCREMENT", "NO_CHANGE", "FAULTY"}
NoType == "undefined"
InReducer == {"DISPATCH_IN_REDUCER", "GETSTATE_IN_REDUCER", "SUBSCRIBE_IN_REDUCER",
              "UNSUBSCRIBE_IN_REDUCER"}

Error == [t |-> "throw", v |-> "Error"]
IsThrown(x) == x.t = "throw"

\* The reducer of the host, after the reducers of the tests:
\*   (state = fromJS({ a: 0 }), action) =>
\*     INCREMENT  state.update('a', c => c + 1)
\*     X_IN_REDUCER  the same, after a call of the store (see callReducer)
\*     FAULTY     ({ a: 9 })
\*     SET_USER_n state.set('b', fromJS(action.payload))
\*     otherwise  state
\* state.update is not a function when state is a plain object.
UserTypes == {"SET_USER_1", "SET_USER_2"}
Payload(type) ==
  IF type = "SET_USER_1" THEN Obj(Props(<< <<"a", Num(1)>>, <<"b", Num(1)>> >>))
                         ELSE Obj(Props(<< <<"a", Num(1)>>, <<"b", Num(2)>> >>))
reducer(h, state, type) ==
  LET cur == IF state = JsUndefined THEN fromJS(h, Obj(Props(<< <<"a", Num(0)>> >>)))
                                    ELSE [h |-> h, v |-> state]
  IN CASE type = "INCREMENT" \/ type \in InReducer ->
            IF isImmutable(cur.v) THEN MapUpdate(cur.h, cur.v.v, A, "inc") ELSE Throw(cur.h)
       [] type = "FAULTY" -> [h |-> cur.h, v |-> Obj(Props(<< <<"a", Num(9)>> >>))]
       [] type \in UserTypes ->
            IF isImmutable(cur.v) THEN MapSet(cur.h, cur.v.v, B, Payload(type))
                                  ELSE Throw(cur.h)
       [] OTHER -> cur

\* wrappedReducer of createGlobalStore.
wrappedReducerUnchecked(h, init, state, type) ==
  reducer(h, IF state = JsUndefined /\ init # JsUndefined THEN init ELSE state, type)
wrappedReducer(h, init, state, type) ==
  LET r == reducer(h, IF state = JsUndefined /\ init # JsUndefined THEN init ELSE state, type)
  IN IF IsThrown(r.v) THEN r
     ELSE IF ~isImmutable(r.v) THEN [h |-> r.h, v |-> Error]
     ELSE r
currentReducer(kind, h, init, state, type) ==
  IF kind = "global" THEN wrappedReducer(h, init, state, type) ELSE reducer(h, state, type)

\* createStore(reducer, initialState): the state once it has returned (an
\* exception of the reducer leaves createStore).  The enhancer
\* createGlobalStore passes is compose(), the identity, so that
\* enhancer(createStore)(reducer, initialState) is this same call.
createStoreNoInit(kind, h, init) == [h |-> h, v |-> init]
createStore(kind, h, init) ==
  IF init = JsUndefined THEN currentReducer(kind, h, init, JsUndefined, INIT)
  ELSE [h |-> h, v |-> init]

\* Listener functions the host subscribes:
\*   l1, l2   () => { seen.push(store.getState()) }
\*   u1       () => { seen.push(store.getState()); unsubscribe1() }
\*   s2       () => { seen.push(store.getState());
\*                    if (made < MaxSubs) store.subscribe(l2) }
\*   dn       () => { seen.push(store.getState());
\*                    if (store.getState().get('a') === 1)
\*                      store.dispatch({ type: 'INCREMENT' }) }
\* where unsubscribe1 is what the first subscribe call returned and made is
\* the number of subscribe calls so far.
ListenerFns == {"l1", "l2", "u1"}
ReentrantListeners == {"l1", "u1", "s2", "dn"}

\* Array.prototype.indexOf and splice(index, 1); a negative index counts
\* from the end of the array.
IndexOf(arr, x) ==
  IF \E j \in 1..Len(arr) : arr[j] = x
    THEN (CHOOSE j \in 1..Len(arr) : arr[j] = x /\ \A k \in 1..(j - 1) : arr[k] # x) - 1
    ELSE -1
Splice1(arr, index) ==
  LET at == IF index < 0 THEN (IF Len(arr) + index < 0 THEN 0 ELSE Len(arr) + index)
                         ELSE index
  IN IF at >= Len(arr) THEN arr
     ELSE SubSeq(arr, 1, at) \o SubSeq(arr, at + 2, Len(arr))

\* The store while a call runs.  next and cur are nextListeners and
\* currentListeners; loops holds, for every dispatch that is in its listener
\* loop, innermost last, the array `listeners` it iterates (snap) and
\* whether that is the array nextListeners refers to (aliased).  ret is what
\* the latest call returned or threw.  acts, log, rounds and touched are
\* history: the actions whose state was stored, the listener calls, the
\* listeners subscribed when each loop began, and whether an array that a
\* loop iterates was modified.
StoreNow(h) ==
  [h |-> h, kind |-> storeKind, init |-> initialState, state |-> currentState,
   next |-> nextListeners, cur |-> currentListeners, isDispatching |-> isDispatching,
   subs |-> subscriptions, loops |-> << >>, ret |-> JsUndefined,
   acts |-> dispatched, log |-> << >>, rounds |-> << >>, touched |-> FALSE,
   bridge |-> bridge, calls |-> << >>, chain |-> middlewares, trace |-> << >>,
   persist |-> persist]

ensureNoCopy(st) == st
ensureCanMutateNextListeners(st) ==
  IF st.cur = "same"
    THEN [st EXCEPT !.cur = "stale",
                    !.loops = [j \in DOMAIN st.loops |-> [st.loops[j] EXCEPT !.aliased = FALSE]]]
    ELSE st

InPlace(st, arr) ==
  [st EXCEPT !.next = arr,
             !.loops = [j \in DOMAIN st.loops |->
                          IF st.loops[j].aliased THEN [st.loops[j] EXCEPT !.snap = arr]
                                                 ELSE st.loops[j]],
             !.touched = @ \/ \E j \in DOMAIN st.loops : st.loops[j].aliased]

\* getState() of createStore.
storeGetState(st) ==
  IF st.isDispatching THEN [st EXCEPT !.ret = Error] ELSE [st EXCEPT !.ret = st.state]

subscribe(st, listener) ==
  IF st.isDispatching THEN [st EXCEPT !.ret = Error]
  ELSE LET s1 == ensureCanMutateNextListeners(st)
       IN [InPlace(s1, Append(s1.next, listener))
             EXCEPT !.subs = Append(@, [fn |-> listener, isSubscribed |-> TRUE]),
                    !.ret = JsUndefined]

unsubscribe(st, k) ==
  IF ~st.subs[k].isSubscribed THEN [st EXCEPT !.ret = JsUndefined]
  ELSE IF st.isDispatching THEN [st EXCEPT !.ret = Error]
  ELSE LET s1 == ensureCanMutateNextListeners([st EXCEPT !.subs[k].isSubscribed = FALSE])
           index == IndexOf(s1.next, s1.subs[k].fn)
       IN [InPlace(s1, Splice1(s1.next, index)) EXCEPT !.cur = "null", !.ret = JsUndefined]

\* The listeners of the subscriptions that are subscribed, in the order of
\* the subscribe calls.
RECURSIVE ActiveFns(_)
ActiveFns(subs) ==
  IF subs = << >> THEN << >>
  ELSE IF Head(subs).isSubscribed THEN << Head(subs).fn >> \o ActiveFns(Tail(subs))
  ELSE ActiveFns(Tail(subs))

RECURSIVE dispatch(_, _)
RECURSIVE NotifyLoop(_, _)

\* currentReducer(currentState, action).  The reducer of the host calls the
\* store first when the action asks for it, and an exception of that call
\* leaves the reducer.
inReducer(st, type) ==
  CASE type = "DISPATCH_IN_REDUCER" -> dispatch(st, "NO_CHANGE")
    [] type = "GETSTATE_IN_REDUCER" -> storeGetState(st)
    [] type = "SUBSCRIBE_IN_REDUCER" -> subscribe(st, "l1")
    [] type = "UNSUBSCRIBE_IN_REDUCER" /\ st.subs # << >> -> unsubscribe(st, 1)
    [] OTHER -> [st EXCEPT !.ret = JsUndefined]
reduced(inner, r) == [inner EXCEPT !.h = r.h, !.ret = r.v]
reduce(inner, state, type) ==
  IF IsThrown(inner.ret) THEN inner
  ELSE reduced(inner, currentReducer(inner.kind, inner.h, inner.init, state, type))
callReducer(st, type) == reduce(inReducer(st, type), st.state, type)

\* dispatch(action): lines 94-110, then the listener loop, then return action.
\* The assignments of lines 108-112 after the reducer returned r.ret, and
\* the end of the listener loop (lines 113-118).
begin(r, type) ==
  [r EXCEPT !.isDispatching = FALSE,
            !.state = r.ret,
            !.acts = Append(@, type),
            !.cur = "same",
            !.loops = Append(@, [snap |-> r.next, aliased |-> TRUE,
                                 round |-> Len(r.rounds) + 1]),
            !.rounds = Append(@, ActiveFns(r.subs))]
notified(done, type) ==
  [done EXCEPT !.loops = SubSeq(@, 1, Len(@) - 1),
               !.ret = IF IsThrown(done.ret) THEN done.ret ELSE Str(type)]
afterReducerKeepsFlag(r, type) ==
  IF IsThrown(r.ret) THEN r
  ELSE notified(NotifyLoop(begin(r, type), 0), type)
afterReducer(r, type) ==
  IF IsThrown(r.ret) THEN [r EXCEPT !.isDispatching = FALSE]
  ELSE notified(NotifyLoop(begin(r, type), 0), type)
dispatchUnguarded(st, type) ==
  IF type = NoType THEN [st EXCEPT !.ret = Error]
  ELSE afterReducer(callReducer([st EXCEPT !.isDispatching = TRUE], type), type)
dispatch(st, type) ==
  IF type = NoType THEN [st EXCEPT !.ret = Error]
  ELSE IF st.isDispatching THEN [st EXCEPT !.ret = Error]
  ELSE afterReducer(callReducer([st EXCEPT !.isDispatching = TRUE], type), type)

\* store.getState(), which changes nothing; the store of createGlobalStore
\* wraps a state that is not a container in a new Map.
getState(kind, h, state) ==
  IF kind = "global" /\ ~isImmutable(state)
    THEN New(h, MapNode(IF state.t = "obj" THEN state.v ELSE EmptyData))
    ELSE [h |-> h, v |-> state]

\* The bridge (connectToGlobalStore).  The host's selectors are
\*   counter  state => state.get('a')
\*   user     state => state.get('b')
\* and its areEqual, where it passes one, is
\*   sameName  (p, n) => name(p) === name(n), name(x) being x.get('a') of a
\*             container and undefined of anything else.
SelectorFns == {"counter", "user"}
selectorFn(h, state, name) ==
  IF ~IsMap(h, state) THEN JsUndefined
  ELSE MapGet(h, state.v, IF name = "counter" THEN A ELSE B, JsUndefined)
NameOf(h, x) == IF IsMap(h, x) THEN MapGet(h, x.v, A, JsUndefined) ELSE JsUndefined
areEqual(h, name, prev, new) == StrictEqV(NameOf(h, prev), NameOf(h, new))

\* The change test of the two bridge listeners; subscribeToGlobal has no
\* areEqual.
changedByIdentity(h, e, new) == ~StrictEqV(e.last, new)
changed(h, e, new) ==
  IF e.areEqual # "none" THEN ~areEqual(h, e.areEqual, e.last, new)
  ELSE IF isImmutable(e.last) /\ isImmutable(new) THEN ~EqualsOf(h, e.last, new)
  ELSE ~StrictEqV(e.last, new)

\* set val(newValue) of the reactive cell: a derivation that read the cell
\* has registered its two callables, and each runs computationFn.
setValQuiet(e, new) == [e EXCEPT !.val = new]
setVal(e, new) ==
  IF StrictEqV(e.val, new) THEN e
  ELSE [e EXCEPT !.val = new,
                 !.derived = IF e.derived.on
                               THEN [on |-> TRUE, val |-> new, runs |-> e.derived.runs + 2]
                               ELSE e.derived]
NoDerive == [on |-> FALSE, val |-> JsUndefined, runs |-> 0]

\* The listener a bridge call subscribes, once it has selected new from
\* globalStore.getState().
BridgeListeners == << "b1", "b2", "b3", "b4" >>
BridgeFns == { BridgeListeners[k] : k \in DOMAIN BridgeListeners }
BridgeIndex(listener) == CHOOSE k \in DOMAIN BridgeListeners : BridgeListeners[k] = listener
compared(st, k, gs, new) ==
  IF ~changed(gs.h, st.bridge[k], new) THEN [st EXCEPT !.h = gs.h, !.ret = JsUndefined]
  ELSE IF st.bridge[k].op = "subscribeToGlobal"
    THEN [st EXCEPT !.h = gs.h, !.ret = JsUndefined,
                    !.bridge[k].last = new,
                    !.calls = Append(@, [k |-> k, arg |-> new])]
    ELSE [st EXCEPT !.h = gs.h, !.ret = JsUndefined,
                    !.bridge[k] = setVal([@ EXCEPT !.last = new], new)]
selected(st, k, gs) == compared(st, k, gs, selectorFn(gs.h, gs.v, st.bridge[k].selectorFn))
bridgeListener(st, k) == selected(st, k, getState(st.kind, st.h, st.state))

\* What a listener does after it has read the state.
WantsMore(st) ==
  IsMap(st.h, st.state) /\ MapGet(st.h, st.state.v, A, JsUndefined) = Num(1)
ListenerBody(st, listener) ==
  CASE listener = "u1" -> unsubscribe(st, 1)
    [] listener = "s2" -> IF Len(st.subs) < MaxSubs THEN subscribe(st, "l2") ELSE st
    [] listener = "dn" -> IF WantsMore(st) THEN dispatch(st, "INCREMENT") ELSE st
    [] listener \in BridgeFns -> bridgeListener(st, BridgeIndex(listener))
    [] OTHER -> st

\* for (let i = 0; i < listeners.length; i++) listeners[i]()
NotifyLoop(st, i) ==
  LET loop == st.loops[Len(st.loops)] IN
  IF i >= Len(loop.snap) THEN st
  ELSE LET listener == loop.snap[i + 1]
           got == storeGetState(st)
           seen == [got EXCEPT !.log = Append(@, [fn |-> listener, saw |-> got.ret,
                                                  round |-> loop.round])]
           after == IF IsThrown(got.ret) THEN got ELSE ListenerBody(seen, listener)
       IN IF IsThrown(after.ret) THEN after ELSE NotifyLoop(after, i + 1)

\* applyMiddleware.  The middlewares of the host are
\*   log     store => next => action => { log.push('before'); const r = next(action);
\*                                        log.push('after'); return r }
\*   double  ({ dispatch }) => next => action => {
\*             if (action.type === 'DOUBLE_ADD') {
\*               dispatch({ type: 'INCREMENT' }); dispatch({ type: 'INCREMENT' }); return }
\*             return next(action) }
\*   thunk   store => next => action =>
\*             typeof action === 'function' ? action(store.dispatch, store.getState)
\*                                          : next(action)
\*   early   store => { store.dispatch({ type: 'FAIL' }); return next => action => next(action) }
\* and the functions it dispatches are
\*   fetch   (dispatch, getState) => { getState(); dispatch({ type: 'INCREMENT' }); getState() }
\*   parent  (dispatch, getState) => { dispatch({ type: 'INCREMENT' }); dispatch(fetch) }
Thunks == {"fetch", "parent"}
Chains == { << >>, << "log" >>, << "thunk" >>, << "double" >>, << "log", "thunk" >>,
            << "thunk", "log" >>, << "double", "log" >>, << "early" >>, << "log", "early" >> }
Event(e, mw, a, v, n) == [e |-> e, mw |-> mw, a |-> a, v |-> v, n |-> n]
Traced(st, e, mw, a) == [st EXCEPT !.trace = Append(@, Event(e, mw, a, JsUndefined, 0))]
ReturnsNothing(st) == IF IsThrown(st.ret) THEN st ELSE [st EXCEPT !.ret = JsUndefined]

RECURSIVE through(_, _, _)

\* store.dispatch of the store applyMiddleware created: an action that is a
\* function has no type.
base(st, a) == dispatch(Traced(st, "base", 0, a), IF a \in Thunks THEN NoType ELSE a)
done(st, a) == IF IsThrown(st.ret) THEN st ELSE Traced(st, "done", 0, a)

\* middlewareAPI.dispatch, and the dispatch of the enhanced store:
\* compose(...chain)(store.dispatch).
apiDispatchToBase(st, a) == through(Traced(st, "call", 0, a), Len(st.chain) + 1, a)
apiDispatch(st, a) == through(Traced(st, "call", 0, a), 1, a)

\* store.getState as a dispatched function calls it.
saw(st, g) ==
  IF IsThrown(g.ret) THEN g
  ELSE [g EXCEPT !.trace = Append(@, Event("saw", 0, "", g.ret, Len(st.acts)))]
andThen(st, a) == IF IsThrown(st.ret) THEN st ELSE ReturnsNothing(apiDispatch(st, a))
sawThen(st) == IF IsThrown(st.ret) THEN st ELSE ReturnsNothing(saw(st, storeGetState(st)))
fetch(st) == sawThen(andThen(saw(st, storeGetState(st)), "INCREMENT"))
parent(st) == andThen(andThen(st, "INCREMENT"), "fetch")

after(st, i, a) == IF IsThrown(st.ret) THEN st ELSE Traced(st, "after", i, a)

\* persistStateMiddleware({ key, adapter, throttleWait }) with the default
\* selector and serializer.  JSON.stringify writes no property whose value
\* is undefined, and null for NaN and for an undefined element; the text is
\* held as the structure it spells.
RECURSIVE stringify(_)
stringify(x) ==
  CASE x.t = "obj" -> Obj([k \in KeyStrs |-> IF x.v[k] \in {Absent, JsUndefined}
                                               THEN Absent ELSE stringify(x.v[k])])
    [] x.t = "arr" -> Arr([j \in 1..Len(x.v) |-> IF x.v[j] = JsUndefined
                                                   THEN JsNull ELSE stringify(x.v[j])])
    [] x.t = "nan" -> JsNull
    [] OTHER -> x
serializer(x) == Str(stringify(x))

\* adapter.setItem(key, value): the call is kept with the time it was made
\* at and the number of dispatches that had stored their state.
setItem(st, value) ==
  [st EXCEPT !.persist.saved = Append(@, [value |-> value, at |-> st.persist.now,
                                          n |-> Len(st.acts)])]
\* performSave: currentStore.getState(), toJS() of a container, setItem.
performSave(st) ==
  setItem(st, serializer(IF isImmutable(st.state) THEN toJS(st.h, st.state) ELSE st.state))
\* executedFunction of debounce: clearTimeout(timeout), then
\* timeout = setTimeout(later, wait).
executedFunction(st) ==
  [st EXCEPT !.persist.pending = TRUE, !.persist.due = st.persist.now + st.persist.wait]
\* later of debounce: clearTimeout(timeout); func().
later(st) == performSave([st EXCEPT !.persist.pending = FALSE])
saveAtOnce(st) == performSave(st)
debouncedPerformSave(st) ==
  IF st.persist.wait > 0 THEN executedFunction(st) ELSE performSave(st)
\* const result = next(action); debouncedPerformSave(); return result
persisted(st) == IF IsThrown(st.ret) THEN st ELSE debouncedPerformSave(st)
thunkPassesOn(st, i, a) == through(st, i + 1, a)
thunk(st, i, a) ==
  IF a \in Thunks
    THEN IF a = "fetch" THEN fetch(Traced(st, "run", i, a)) ELSE parent(Traced(st, "run", i, a))
    ELSE through(st, i + 1, a)
middleware(st, i, a) ==
  CASE st.chain[i] = "log" -> after(through(st, i + 1, a), i, a)
    [] st.chain[i] = "double" ->
         IF a = "DOUBLE_ADD" THEN andThen(andThen(st, "INCREMENT"), "INCREMENT")
                             ELSE through(st, i + 1, a)
    [] st.chain[i] = "thunk" -> thunk(st, i, a)
    [] st.chain[i] = "persist" -> persisted(through(st, i + 1, a))
    [] OTHER -> through(st, i + 1, a)

\* (...args) => a(b(...args)) of compose, from the i-th middleware on.
through(st, i, a) ==
  IF i > Len(st.chain) THEN done(base(st, a), a)
  ELSE middleware(Traced(st, "enter", i, a), i, a)

\* No persistStateMiddleware: time 0, no timer, nothing saved.  times holds
\* the time of every dispatch of the host that returned.
NoPersist == [wait |-> 0, now |-> 0, pending |-> FALSE, due |-> 0,
              saved |-> << >>, times |-> << >>]

NoStoreCall == [op |-> "none", arg |-> JsUndefined, ret |-> JsUndefined,
                before |-> JsUndefined, active |-> << >>,
                rounds |-> << >>, touched |-> FALSE]
StoreCalled(op, arg, ret) ==
  [op |-> op, arg |-> arg, ret |-> ret,
   before |-> IF op = "dispatch" THEN currentState ELSE JsUndefined,
   active |-> IF op = "dispatch" THEN ActiveFns(subscriptions) ELSE << >>,
   rounds |-> << >>, touched |-> FALSE]

StoreInputs == { JsUndefined, Obj(Props(<< <<"a", Num(0)>> >>)) }

StoreFrame ==
  /\ UNCHANGED << root, nCalls, call, plain >>
  /\ UNCHANGED reactVars

Created(kind, r, arg, given) ==
  /\ heap' = r.h
  /\ storeKind' = (IF IsThrown(r.v) THEN "none" ELSE kind)
  /\ currentState' = (IF IsThrown(r.v) THEN JsUndefined ELSE r.v)
  /\ initialState' = given
  /\ storeCall' = StoreCalled(IF kind = "global" THEN "createGlobalStore" ELSE "createStore",
                              arg, IF IsThrown(r.v) THEN r.v ELSE Str(kind))
  /\ UNCHANGED << currentListeners, nextListeners, subscriptions, isDispatching,
                  dispatched, invoked, bridge, called, middlewares, trace, persist >>

\* createStore(reducer, initialState) by the host; with convert the host
\* passes fromJS(x).
CreateStore(x, convert) ==
  /\ StoreFrame
  /\ storeKind = "none" /\ storeCall.op = "none"
  /\ LET given == IF convert THEN fromJS(heap, x) ELSE [h |-> heap, v |-> x]
     IN Created("store", createStore("store", given.h, given.v), x, given.v)

\* createGlobalStore(reducer, initialState) by the host.
CreateGlobalStore(x, convert) ==
  /\ StoreFrame
  /\ storeKind = "none" /\ storeCall.op = "none"
  /\ LET given == IF convert THEN fromJS(heap, x) ELSE [h |-> heap, v |-> x]
     IN IF given.v # JsUndefined /\ ~isImmutable(given.v)
          THEN Created("global", [h |-> given.h, v |-> Error], x, given.v)
          ELSE Created("global", createStore("global", given.h, given.v), x, given.v)

\* The store as a call of the host leaves it.
Left(st) ==
  /\ heap' = st.h
  /\ currentState' = st.state
  /\ currentListeners' = st.cur
  /\ nextListeners' = st.next
  /\ isDispatching' = st.isDispatching
  /\ subscriptions' = st.subs
  /\ dispatched' = st.acts
  /\ invoked' = st.log
  /\ bridge' = st.bridge
  /\ called' = st.calls
  /\ trace' = st.trace
  /\ persist' = st.persist
  /\ UNCHANGED << storeKind, initialState, middlewares >>

\* store.dispatch(action) by the host.
Dispatch(type) ==
  /\ StoreFrame
  /\ storeKind # "none"
  /\ Len(dispatched) < MaxDispatch
  /\ LET st == dispatch(StoreNow(heap), type)
     IN /\ Left(st)
        /\ storeCall' = [StoreCalled("dispatch", Str(type), st.ret)
                           EXCEPT !.rounds = st.rounds, !.touched = st.touched]

\* store.subscribe(listener) by the host.
Subscribe(listener) ==
  /\ StoreFrame
  /\ storeKind # "none"
  /\ Len(subscriptions) < MaxSubs
  /\ LET st == subscribe(StoreNow(heap), listener)
     IN /\ Left(st)
        /\ storeCall' = StoreCalled("subscribe", JsUndefined, st.ret)

\* The function the k-th subscribe call returned, called by the host.
Unsubscribe(k) ==
  /\ StoreFrame
  /\ k \in 1..Len(subscriptions)
  /\ LET st == unsubscribe(StoreNow(heap), k)
     IN /\ Left(st)
        /\ storeCall' = StoreCalled("unsubscribe", JsUndefined, st.ret)

\* The host's bridge calls on a scoped state connected to the global store.
Bridged(op, name, eq, first) ==
  [op |-> op, selectorFn |-> name, areEqual |-> eq, last |-> first,
   val |-> IF op = "createGlobalStateSelector" THEN first ELSE JsUndefined,
   derived |-> NoDerive]
connect(st, op, name, eq, gs) ==
  subscribe([st EXCEPT !.h = gs.h,
                       !.bridge = Append(@, Bridged(op, name, eq,
                                                    selectorFn(gs.h, gs.v, name)))],
            BridgeListeners[Len(st.bridge) + 1])

\* scopedState.subscribeToGlobal(selectorFn, callback)
SubscribeToGlobal(name) ==
  /\ StoreFrame
  /\ storeKind = "global"
  /\ Len(subscriptions) < MaxSubs
  /\ Left(connect(StoreNow(heap), "subscribeToGlobal", name, "none",
                  getState(storeKind, heap, currentState)))
  /\ storeCall' = StoreCalled("subscribeToGlobal", Str(name), JsUndefined)

\* scopedState.createGlobalStateSelector(selectorFn, { areEqual })
CreateGlobalStateSelector(name, eq) ==
  /\ StoreFrame
  /\ storeKind = "global"
  /\ Len(subscriptions) < MaxSubs
  /\ Left(connect(StoreNow(heap), "createGlobalStateSelector", name, eq,
                  getState(storeKind, heap, currentState)))
  /\ storeCall' = StoreCalled("createGlobalStateSelector", Str(name), JsUndefined)

\* derive(() => cell.val) by the host, on the cell of the k-th bridge call:
\* computationFn runs twice and both callables register with the cell.
DeriveCell(k) ==
  /\ StoreFrame
  /\ k \in DOMAIN bridge
  /\ bridge[k].op = "createGlobalStateSelector"
  /\ ~bridge[k].derived.on
  /\ bridge' = [bridge EXCEPT ![k].derived = [on |-> TRUE, val |-> bridge[k].val, runs |-> 2]]
  /\ called' = << >>
  /\ invoked' = << >>
  /\ storeCall' = StoreCalled("derive", JsUndefined, JsUndefined)
  /\ UNCHANGED << heap, storeKind, currentState, currentListeners, nextListeners,
                  subscriptions, isDispatching, initialState, dispatched,
                  middlewares, trace, persist >>

\* createStore(reducer, undefined, applyMiddleware(...chain)) by the host:
\* createStore hands itself to the enhancer, which creates the store and
\* then the chain; a middleware that dispatches while it is constructed
\* calls the dispatch that throws.
ApplyMiddleware(chain) ==
  /\ StoreFrame
  /\ storeKind = "none" /\ storeCall.op = "none"
  /\ LET r == IF \E i \in DOMAIN chain : chain[i] = "early"
                THEN [h |-> createStore("store", heap, JsUndefined).h, v |-> Error]
                ELSE createStore("store", heap, JsUndefined)
     IN /\ heap' = r.h
        /\ storeKind' = (IF IsThrown(r.v) THEN "none" ELSE "store")
        /\ currentState' = (IF IsThrown(r.v) THEN JsUndefined ELSE r.v)
        /\ middlewares' = (IF IsThrown(r.v) THEN << >> ELSE chain)
        /\ storeCall' = StoreCalled("applyMiddleware", [t |-> "chain", v |-> chain],
                                    IF IsThrown(r.v) THEN r.v ELSE Str("store"))
  /\ UNCHANGED << currentListeners, nextListeners, subscriptions, isDispatching,
                  initialState, dispatched, invoked, bridge, called, trace, persist >>

\* dispatch of the enhanced store, called by the host.
DispatchEnhanced(a) ==
  /\ StoreFrame
  /\ storeKind # "none"
  /\ Len(dispatched) < MaxDispatch
  /\ LET st == apiDispatch(StoreNow(heap), a)
     IN /\ Left(st)
        /\ storeCall' = StoreCalled("dispatch", Str(a), st.ret)

\* createStore(reducer, undefined,
\*             applyMiddleware(persistStateMiddleware({ key, adapter, throttleWait })))
\* by the host.
Waits == {0, 1, 2}
ApplyPersist(throttleWait) ==
  /\ StoreFrame
  /\ storeKind = "none" /\ storeCall.op = "none"
  /\ heap' = createStore("store", heap, JsUndefined).h
  /\ storeKind' = "store"
  /\ currentState' = createStore("store", heap, JsUndefined).v
  /\ middlewares' = << "persist" >>
  /\ persist' = [persist EXCEPT !.wait = throttleWait]
  /\ storeCall' = StoreCalled("applyMiddleware", [t |-> "chain", v |-> << "persist" >>],
                              Str("store"))
  /\ UNCHANGED << currentListeners, nextListeners, subscriptions, isDispatching,
                  initialState, dispatched, invoked, bridge, called, trace >>

\* The timer of debounce has run out and its callback has not run yet.
TimerDue == persist.pending /\ persist.due <= persist.now

\* dispatch of the enhanced store, called by the host at the present time.
\* A timer that has run out runs its callback before the host's next call.
Stamped(st) ==
  IF IsThrown(st.ret) THEN st ELSE [st EXCEPT !.persist.times = Append(@, st.persist.now)]
DispatchPersisted(a) ==
  /\ StoreFrame
  /\ storeKind # "none"
  /\ Len(dispatched) < MaxDispatch
  /\ ~TimerDue
  /\ LET st == apiDispatch(StoreNow(heap), a)
     IN /\ Left(Stamped(st))
        /\ storeCall' = StoreCalled("dispatch", Str(a), st.ret)

\* The callback later of debounce, run by the timer.
TimerFires ==
  /\ StoreFrame
  /\ TimerDue
  /\ Left(later(StoreNow(heap)))
  /\ storeCall' = StoreCalled("later", JsUndefined, JsUndefined)

\* One unit of time passes with no call of the host; time does not pass a
\* timer that has run out.
Advance ==
  /\ StoreFrame
  /\ storeKind # "none"
  /\ persist.now < MaxTime
  /\ ~TimerDue
  /\ persist' = [persist EXCEPT !.now = @ + 1]
  /\ UNCHANGED << heap, storeKind, currentState, currentListeners, nextListeners,
                  subscriptions, isDispatching, initialState, dispatched, invoked,
                  bridge, called, middlewares, trace, storeCall >>

InitStore ==
  /\ storeKind = "none"
  /\ currentState = JsUndefined
  /\ currentListeners = "same"
  /\ nextListeners = << >>
  /\ subscriptions = << >>
  /\ isDispatching = FALSE
  /\ initialState = JsUndefined
  /\ dispatched = << >>
  /\ invoked = << >>
  /\ bridge = << >>
  /\ called = << >>
  /\ middlewares = << >>
  /\ trace = << >>
  /\ persist = NoPersist
  /\ storeCall = NoStoreCall

NextStore ==
  \/ \E x \in StoreInputs, convert \in BOOLEAN : CreateStore(x, convert)
  \/ \E x \in StoreInputs, convert \in BOOLEAN : CreateGlobalStore(x, convert)
  \/ \E type \in ActionTypes \cup {NoType} : Dispatch(type)
  \/ \E listener \in ListenerFns : Subscribe(listener)
  \/ \E k \in 1..MaxSubs : Unsubscribe(k)

\* A host that bridges scoped states to a global store.
BridgeTypes == {"INCREMENT", "SET_USER_1", "SET_USER_2"}
GlobalInit == Obj(Props(<< <<"a", Num(0)>> >>))
NextBridge ==
  \/ CreateGlobalStore(GlobalInit, TRUE)
  \/ \E type \in BridgeTypes : Dispatch(type)
  \/ \E name \in SelectorFns : SubscribeToGlobal(name)
  \/ \E k \in 1..MaxSubs : Unsubscribe(k)
NextSelector ==
  \/ CreateGlobalStore(GlobalInit, TRUE)
  \/ \E type \in BridgeTypes : Dispatch(type)
  \/ \E eq \in {"none", "sameName"} : CreateGlobalStateSelector("user", eq)
  \/ CreateGlobalStateSelector("counter", "none")
  \/ \E k \in 1..MaxSubs : DeriveCell(k)

\* A host that creates its store with applyMiddleware.
NextMiddleware ==
  \/ \E chain \in Chains : ApplyMiddleware(chain)
  \/ \E a \in {"INCREMENT", "DOUBLE_ADD"} \cup Thunks : DispatchEnhanced(a)
  \/ Subscribe("l1")

\* A host that persists the state of its store.
NextPersist ==
  \/ \E throttleWait \in Waits : ApplyPersist(throttleWait)
  \/ \E a \in {"INCREMENT", "NO_CHANGE"} : DispatchPersisted(a)
  \/ TimerFires
  \/ Advance
  \/ Subscribe("l1")

\* A host whose reducer and listeners call the store themselves.
NextReentry ==
  \/ \E convert \in BOOLEAN : CreateStore(JsUndefined, convert)
  \/ \E type \in {"INCREMENT", NoType} \cup InReducer : Dispatch(type)
  \/ \E listener \in ReentrantListeners : Subscribe(listener)
  \/ \E k \in 1..MaxSubs : Unsubscribe(k)

--------------------------------------------------------------------------
\* The two engines do not interact: each specification runs one of them and
\* leaves the other as constructed.
ReactUnused ==
  /\ val = [c \in Cells |-> IF c.k = "sig" THEN 0 ELSE Undefined]
  /\ dependents = [c \in Cells |-> << >>]
  /\ currentContext = NoCtx
  /\ nDrv = 0
  /\ drvFn = [d \in DIds |-> NoFn]
  /\ drvStatus = [d \in DIds |-> "none"]
  /\ stack = << >>
  /\ exc = FALSE
  /\ log = << >>
  /\ lastOp = [op |-> "none", s |-> 0, v |-> 0, same |-> FALSE, snap |-> << >>, d |-> 0]
  /\ outcome = "ok"
  /\ faulted = FALSE
  /\ lastReads = [d \in DIds |-> {}]
  /\ firstSeen = [c \in Cells |-> << >>]
CollUnused ==
  /\ heap = << >>
  /\ root = 0
  /\ nCalls = 0
  /\ call = NoCall
  /\ plain = JsUndefined

Init == InitReact /\ CollUnused /\ InitStore
Next == NextReact
Spec == Init /\ [][Next]_vars

\* A call that has begun keeps running: the steps of the engine are taken by
\* the JavaScript runtime, one after the other, until the call returns or
\* throws.  The host is free to make no further call.
EngineStep ==
  \/ ComputeRead \/ ComputeArith \/ ComputeThrowIf \/ ComputeWrite \/ ComputeDerive
  \/ UpdaterReturn \/ UpdateAndNotifyReturn \/ DeriveFirstReturn \/ DeriveReturn
  \/ NotifyNext \/ NotifyDone \/ Unwind
SpecRun == Init /\ [][Next]_vars /\ WF_vars(EngineStep)

InitC == InitColl /\ ReactUnused /\ InitStore
SpecColl == InitC /\ [][NextColl]_vars

InitQ == InitQuery /\ ReactUnused /\ InitStore
SpecQuery == InitQ /\ [][NextQuery]_vars

InitS == InitStore /\ CollUnused /\ ReactUnused
SpecStore == InitS /\ [][NextStore]_vars
SpecReentry == InitS /\ [][NextReentry]_vars
SpecBridge == InitS /\ [][NextBridge]_vars
SpecMiddleware == InitS /\ [][NextMiddleware]_vars
SpecSelector == InitS /\ [][NextSelector]_vars
SpecPersist == InitS /\ [][NextPersist]_vars

--------------------------------------------------------------------------
\* Properties of the reactive engine (checked under Spec).

Range(q) == {q[j] : j \in 1..Len(q)}
Live(d) == drvStatus[d] = "live"
IsDependent(d, c) == \E j \in 1..Len(dependents[c]) : dependents[c][j].d = d

\* C1 (as claimed): with d1 = derive(() => s1.val + s1.val) and
\* d2 = derive(() => d1.val + 1), whenever no call is running and none has
\* thrown, d2's cached value is its computationFn applied to d1's cached value.
C1_TwoHopFresh ==
  (Idle /\ ~faulted) =>
    \A d2 \in DIds :
      (Live(d2) /\ drvFn[d2].name = "inc" /\ drvFn[drvFn[d2].src].name = "dbl")
        => val[DrvCell(d2)] = Plus(val[DrvCell(drvFn[d2].src)], 1)

\* C2: for d = derive(() => s1.val + s1.val), whenever no call is running
\* (every write has returned) and no computation has thrown, d's cached value
\* is its computationFn applied to the current value of s1.
C2_OneHopFresh ==
  (Idle /\ ~faulted) =>
    \A d \in DIds :
      (Live(d) /\ drvFn[d].name = "dbl")
        => val[DrvCell(d)] = Plus(val[SigCell(1)], val[SigCell(1)])

\* C2 witness: a write changed s1 from 0 to 1 after d was derived, and d was
\* recomputed to 2 without any subscription call by the host.
C2_Witness ==
  /\ Idle /\ ~faulted
  /\ lastOp.op = "write" /\ lastOp.s = 1 /\ lastOp.v = 1 /\ ~lastOp.same
  /\ \E d \in DIds : /\ Live(d) /\ drvFn[d].name = "dbl"
                     /\ Updater(d) \in Range(lastOp.snap)
                     /\ val[DrvCell(d)] = 2

\* C6: a write of a value === the current one is a single step that changes
\* no cell value, no dependent set, no cached value and the context slot,
\* starts no call (empty stack) and invokes nothing (empty event log).
C6_ChangeSuppression ==
  [][\A s \in Signals, v \in SigValues :
       (Write(s, v) /\ v = val[SigCell(s)] /\ v # NaN)
         => (/\ UNCHANGED << val, dependents, currentContext, nDrv, drvStatus >>
             /\ stack' = << >>
             /\ log' = << >>)]_vars

\* C6 witness: such a write was made to a cell that has dependents.
C6_Witness ==
  /\ Idle
  /\ lastOp.op = "write" /\ lastOp.same
  /\ lastOp.snap # << >>

\* The callables invoked by the forEach of the top-level write, in order.
DirectCalls ==
  LET q == SelectSeq(log, LAMBDA e : e.e = "call" /\ e.lvl = 1)
  IN [j \in 1..Len(q) |-> q[j].r]
\* The dependents present when the write started, in first-registration order.
ExpectedCalls ==
  SelectSeq(firstSeen[SigCell(lastOp.s)], LAMBDA r : r \in Range(lastOp.snap))
IsPrefix(a, b) == Len(a) <= Len(b) /\ a = SubSeq(b, 1, Len(a))

\* C7: during a write that changes the value and does not throw, the
\* callables the setter has invoked so far are a prefix of the dependents
\* present at the start of the write, each once, in first-registration order;
\* when the write has returned, they are all of them.
C7_NotifyOnceInOrder ==
  (lastOp.op = "write" /\ ~lastOp.same /\ ~exc /\ outcome # "threw") =>
    /\ IsPrefix(DirectCalls, ExpectedCalls)
    /\ Idle => DirectCalls = ExpectedCalls

\* C7 witness: a returned write has invoked the four callables of two
\* derivations, one of which reads the cell twice.
C7_Witness ==
  /\ Idle /\ outcome = "ok"
  /\ lastOp.op = "write" /\ ~lastOp.same
  /\ Len(DirectCalls) = 4
  /\ \E d \in DIds : drvFn[d].name = "dbl" /\ Updater(d) \in Range(DirectCalls)

\* C8 (as claimed): a derive() call that has returned has executed its
\* computationFn exactly once.
C8_DeriveRunsOnce ==
  (Idle /\ lastOp.op = "derive" /\ outcome = "ok") =>
    Cardinality({j \in 1..Len(log) : log[j].e = "run"}) = 1

\* The callable the innermost tracked computation on the stack installed.
TrackedContext ==
  LET T == {j \in 1..Len(stack) : stack[j].t \in {"upd", "uan", "derive"}}
  IN IF T = {} THEN NoCtx
     ELSE LET f == stack[CHOOSE j \in T : \A k \in T : k <= j]
          IN IF f.t = "upd" \/ (f.t = "derive" /\ f.i = 1)
               THEN Updater(f.d) ELSE UpdateAndNotify(f.d)

\* C9: currentContext is always the callable of the innermost tracked
\* computation still on the stack (every finished or failed one has put back
\* what it found), and null when there is none.
C9_ContextDiscipline == currentContext = TrackedContext

\* C9 witness: a computationFn threw while being recomputed by a write; the
\* exception has reached the writer and the slot is null.
C9_Witness ==
  /\ Idle /\ outcome = "threw" /\ lastOp.op = "write"
  /\ currentContext = NoCtx

\* C10 (as claimed): whenever no call is running, a derivation is registered
\* with a cell exactly when its latest execution of computationFn read it.
C10_DepsAreLastReads ==
  (Idle /\ ~faulted) =>
    \A d \in DIds, c \in Cells :
      Live(d) => (IsDependent(d, c) <=> c \in lastReads[d])

\* C11: once a computationFn has thrown, every step only leaves one frame
\* (nothing is caught, re-run or called, no value or dependent set changes)
\* until the writer has the exception; then the written cell holds the new
\* value, the callables invoked are a prefix of the write's dependents (the
\* thrower last, once), and every derivation of () => s1.val + s1.val that
\* was recomputed before the throw holds its recomputed value.
C11_FaultReachesWriter ==
  /\ []((Idle /\ lastOp.op = "write" /\ outcome = "threw") =>
          /\ val[SigCell(lastOp.s)] = lastOp.v
          /\ DirectCalls # << >>
          /\ IsPrefix(DirectCalls, ExpectedCalls)
          /\ log[Len(log)] = [e |-> "run", r |-> DirectCalls[Len(DirectCalls)], lvl |-> 0]
          /\ \A d \in DIds :
               (lastOp.s = 1 /\ drvFn[d].name = "dbl" /\ Updater(d) \in Range(DirectCalls))
                 => val[DrvCell(d)] = Plus(lastOp.v, lastOp.v))
  /\ [][exc => /\ stack' = Pop(stack)
               /\ exc' = (stack' # << >>)
               /\ stack' = << >> => outcome' = "threw"
               /\ UNCHANGED << val, dependents, log >>]_vars

\* C11 witness: the writer of s1 := 1 got the exception of a derivation that
\* was invoked after a derivation of () => s1.val + s1.val, which holds 2.
C11_Witness ==
  /\ Idle /\ lastOp.op = "write" /\ outcome = "threw"
  /\ val[SigCell(1)] = 1
  /\ \E d \in DIds : /\ drvFn[d].name = "dbl"
                     /\ Updater(d) \in Range(DirectCalls)
                     /\ val[DrvCell(d)] = 2

\* The writes made by a computationFn during the current top-level call, and
\* for each the callables invoked by its forEach: the calls of its level up to
\* the next call of an outer forEach (or the next write of that depth).
WriteEvents == {j \in 1..Len(log) : log[j].e = "write"}
SpanEnd(j) ==
  LET E == {k \in (j + 1)..Len(log) :
              \/ log[k].e = "call" /\ log[k].lvl < log[j].lvl
              \/ log[k].e = "write" /\ log[k].lvl <= log[j].lvl}
  IN IF E = {} THEN Len(log) + 1 ELSE CHOOSE k \in E : \A m \in E : k <= m
RoundCalls(j) ==
  LET q == SelectSeq(SubSeq(log, j + 1, SpanEnd(j) - 1),
                     LAMBDA e : e.e = "call" /\ e.lvl = log[j].lvl)
  IN [m \in 1..Len(q) |-> q[m].r]

\* C12: when a computationFn invoked by a write to A writes a changed value
\* to B, the callables invoked for B are a prefix of B's dependents, and all
\* of them by the time the next dependent of A (any outer forEach) is invoked
\* or the top-level call returns; and the top-level write still invokes every
\* one of its own dependents.
C12_DepthFirst ==
  (~exc /\ outcome # "threw") =>
    /\ \A j \in WriteEvents :
         /\ IsPrefix(RoundCalls(j), log[j].snap)
         /\ (SpanEnd(j) <= Len(log) \/ Idle) => RoundCalls(j) = log[j].snap
    /\ (Idle /\ lastOp.op = "write" /\ WriteEvents # {}) => DirectCalls = ExpectedCalls

\* C12 witness: a returned write to s1 whose first dependent wrote s2, which
\* had two dependents, and that invoked further dependents of s1 afterwards.
C12_Witness ==
  /\ Idle /\ outcome = "ok" /\ lastOp.op = "write" /\ lastOp.s = 1
  /\ \E j \in WriteEvents :
       /\ Len(log[j].snap) >= 2
       /\ \E k \in (j + 1)..Len(log) : log[k].e = "call" /\ log[k].lvl = 1

\* C13: every read made by a computationFn registers a callable of the
\* derivation whose computationFn makes the read (the innermost one running)
\* with the cell read, and registers nothing else anywhere.
C13_NestedTracking ==
  [][ComputeRead =>
       LET c == Ins.cell
           d == Top(stack).d
       IN /\ \E x \in Range(dependents'[c]) : x.d = d
          /\ \A x \in Range(dependents'[c]) \ Range(dependents[c]) : x.d = d
          /\ \A c2 \in Cells \ {c} : dependents'[c2] = dependents[c2]]_vars

\* C13 witness: the outer computationFn (nest) has made its read of s2 after
\* the derivation it constructed has returned; the inner one is registered
\* with s1 only and the outer one with s2 only.
C13_Witness ==
  /\ stack # << >> /\ Top(stack).t = "compute"
  /\ drvFn[Top(stack).d].name = "nest"
  /\ Top(stack).i = 3
  /\ \E d2 \in DIds :
       /\ d2 > Top(stack).d /\ Live(d2)
       /\ \E j \in 1..Len(log) : log[j].e = "run" /\ log[j].r = UpdateAndNotify(d2)
       /\ IsDependent(d2, SigCell(1)) /\ ~IsDependent(d2, SigCell(2))
       /\ IsDependent(Top(stack).d, SigCell(2)) /\ ~IsDependent(Top(stack).d, SigCell(1))


\* C26 (as claimed): an assignment to the val of a derivation succeeds and
\* the derivation then reads as the assigned value (until a dependency is
\* written with a changed value, which recomputes it).
C26_TransientOverwrite ==
  (Idle /\ lastOp.op = "assign") =>
    /\ outcome = "ok"
    /\ val[DrvCell(lastOp.d)] = lastOp.v

\* C37 (as claimed): the dependents of a cell hold at most one routine of
\* each derivation, and a write that changes a signal and returns has
\* executed the computationFn of every derivation registered on that signal
\* exactly once.
C37_OneRegistration ==
  /\ \A c \in Cells, d \in DIds :
       Cardinality({r \in Range(dependents[c]) : r.d = d}) <= 1
  /\ (Idle /\ lastOp.op = "write" /\ ~lastOp.same /\ outcome = "ok") =>
       \A d \in {r.d : r \in Range(lastOp.snap)} :
         Cardinality({j \in 1..Len(log) : log[j].e = "run" /\ log[j].r.d = d}) = 1

\* No computationFn of the graph writes to a signal.  (Every derivation of
\* the model reads cells created before it.)
NoWriters == \A d \in DIds : drvFn[d].name # "relay"

\* C40: in a graph without a writing computationFn, a write that has begun
\* ends: control is back at the writer, by return or by exception.
C40_WriteTerminates ==
  (lastOp.op = "write" /\ outcome = "running" /\ NoWriters)
    ~> (lastOp.op = "write" /\ outcome # "running" /\ stack = << >>)

\* C40 witness: a write to s1 has returned after running d1 = dbl and
\* d2 = () => d1.val + 1, the second through d1's notification.
C40_Witness ==
  /\ Idle /\ lastOp.op = "write" /\ outcome = "ok" /\ NoWriters
  /\ nDrv = 2 /\ drvFn[1].name = "dbl" /\ drvFn[2].name = "inc"
  /\ \E j \in 1..Len(log) : log[j].e = "call" /\ log[j].lvl > 1 /\ log[j].r.d = 2

--------------------------------------------------------------------------
\* Properties of the persistent collections (checked under SpecColl).

Mutators == {"set", "setIn", "push", "delete", "update", "updateIn"}

\* C3: no step changes an instance that exists: every address keeps its
\* kind and its entries (scalars and references) for ever, whatever mutator
\* is called on it or on a container derived from it.
C3_ReceiverImmutable ==
  [][\A a \in 1..Len(heap) : a <= Len(heap') /\ heap'[a] = heap[a]]_vars

\* C3 witness: a second mutator call, made on the container the first call
\* returned, has returned a new container.
C3_Witness ==
  /\ nCalls = 2
  /\ call.op \in Mutators
  /\ call.recv # root
  /\ isImmutable(call.ret) /\ call.ret.v # call.recv

\* Entries off the path are the same references in the old and the new node,
\* level by level along the path.
RECURSIVE SharedAlong(_, _, _, _)
SharedAlong(h, old, new, path) ==
  IF path = << >> \/ ~isImmutable(old) \/ ~isImmutable(new) THEN TRUE
  ELSE LET o == h[old.v]
           n == h[new.v]
       IN IF o.kind = "Map" /\ n.kind = "Map"
            THEN /\ \A k \in KeyStrs \ {KeyStr(path[1])} : n.data[k] = o.data[k]
                 /\ SharedAlong(h, o.data[KeyStr(path[1])], n.data[KeyStr(path[1])],
                                Tail(path))
          ELSE IF o.kind = "List" /\ n.kind = "List"
            THEN /\ \A j \in 1..Len(o.data) :
                       \/ path[1].t = "num" /\ j = path[1].v + 1
                       \/ j <= Len(n.data) /\ n.data[j] = o.data[j]
                 /\ SharedAlong(h, ListGet(h, old.v, path[1], JsUndefined),
                                ListGet(h, new.v, path[1], JsUndefined), Tail(path))
          ELSE FALSE

\* C4: after set(k, v) every entry of the receiver under another key or
\* index is the same reference in the result; after setIn(p, v) that holds at
\* every level along p.
C4_StructuralSharing ==
  /\ call.op = "set" => SharedAlong(heap, Ref(call.recv), call.ret, << call.key >>)
  /\ call.op = "setIn" => SharedAlong(heap, Ref(call.recv), call.ret, call.path)

\* C4 witness: setIn with a two-segment path on a Map whose entry on the path
\* and an entry next to it are both containers returned a new Map.
C4_Witness ==
  /\ call.op = "setIn" /\ Len(call.path) = 2
  /\ heap[call.recv].kind = "Map"
  /\ isImmutable(call.ret) /\ call.ret.v # call.recv
  /\ isImmutable(heap[call.recv].data[KeyStr(call.path[1])])
  /\ \E k \in KeyStrs \ {KeyStr(call.path[1])} : isImmutable(heap[call.recv].data[k])

\* Every List that exists on the walk is addressed by a non-negative number
\* (a Map takes any key, and a missing branch is created to fit the segment).
RECURSIVE Addressable(_, _, _)
Addressable(h, cur, path) ==
  IF path = << >> \/ ~isImmutable(cur) THEN TRUE
  ELSE IF h[cur.v].kind = "List"
    THEN /\ path[1].t = "num" /\ path[1].v >= 0
         /\ Addressable(h, ListGet(h, cur.v, path[1], JsUndefined), Tail(path))
    ELSE Addressable(h, MapGet(h, cur.v, path[1], JsUndefined), Tail(path))

\* C5 (as claimed): after c.setIn(p, v) with p not empty (and numbers where
\* the walk meets a List), reading p from the result gives fromJS(v): v
\* itself for a scalar, a container that converts back to v for a plain
\* structure; a List index that does not exist yet is materialized.
C5_WriteThenRead ==
  (call.op = "setIn" /\ call.path # << >>
     /\ Addressable(heap, Ref(call.recv), call.path)) =>
    LET got == GetInLoop(heap, call.ret, call.path, Str("default"))
    IN IF call.value.t \in {"arr", "obj"}
         THEN isImmutable(got) /\ toJS(heap, got) = call.value
         ELSE got = call.value

\* The values a container holds.
Entries(node) ==
  IF node.kind = "Map" THEN {node.data[k] : k \in Keys(node.data)} ELSE Range(node.data)

\* C14 (as claimed): no container, however it was obtained (new Map(data),
\* new List(data), fromJS, any sequence of mutators), holds a plain object or
\* a plain array.
C14_NoRawNested ==
  \A a \in 1..Len(heap) : \A x \in Entries(heap[a]) : x.t \notin {"arr", "obj"}

\* x is what fromJS makes of v: v itself for a scalar or a container, a
\* container that converts back to v for a plain structure.
IsFromJSOf(h, x, v) ==
  IF v.t \in {"arr", "obj"} THEN isImmutable(x) /\ toJS(h, x) = v ELSE x = v

\* C18: where the receiver of setIn(path, v) has no container under a proper
\* prefix of path and the result has one, that container is a List if the
\* segment after the prefix is a number and a Map otherwise.
C18_NodeKind ==
  call.op = "setIn" =>
    \A i \in 1..(Len(call.path) - 1) :
      LET pre == SubSeq(call.path, 1, i)
          old == GetInLoop(heap, Ref(call.recv), pre, JsUndefined)
          new == GetInLoop(heap, call.ret, pre, JsUndefined)
      IN (~isImmutable(old) /\ isImmutable(new)) =>
           (heap[new.v].kind = "List" <=> call.path[i + 1].t = "num")

\* C18 witness: setIn(['a', 0, 'b'], v) on a Map without 'a' created a List
\* under 'a' and a Map at its index 0.
C18_Witness ==
  /\ call.op = "setIn" /\ call.path = << A, Num(0), B >>
  /\ heap[call.recv].kind = "Map"
  /\ MapGet(heap, call.recv, A, JsUndefined) = JsUndefined
  /\ IsList(heap, GetInLoop(heap, call.ret, << A >>, JsUndefined))
  /\ IsMap(heap, GetInLoop(heap, call.ret, << A, Num(0) >>, JsUndefined))

\* C19: on a List of length n, set(i, v) with 0 <= i < n returns a new List
\* of length n with fromJS(v) at i and the other elements as they were;
\* set(n, v) returns a new List of length n + 1 that is what push(v) returns;
\* set(i, v) with i < 0 or i > n returns the receiver.
C19_ListSetBounds ==
  (call.op = "set" /\ heap[call.recv].kind = "List") =>
    LET old == heap[call.recv].data
        n == Len(old)
        i == call.key.v
    IN IF i < 0 \/ i > n THEN call.ret = Ref(call.recv)
       ELSE /\ IsList(heap, call.ret) /\ call.ret # Ref(call.recv)
            /\ LET new == heap[call.ret.v].data
               IN /\ Len(new) = (IF i = n THEN n + 1 ELSE n)
                  /\ IsFromJSOf(heap, new[i + 1], call.value)
                  /\ \A j \in 1..n : j # i + 1 => new[j] = old[j]
                  /\ i = n =>
                       LET pr == ListPush(heap, call.recv, call.value)
                       IN toJS(pr.h, pr.v) = toJS(heap, call.ret)

\* C19 witness: set(n, v) with a plain object on a List of length n >= 1.
C19_Witness ==
  /\ call.op = "set" /\ heap[call.recv].kind = "List"
  /\ call.key.v = Len(heap[call.recv].data) /\ call.key.v >= 1
  /\ call.value.t = "obj"
  /\ IsList(heap, call.ret) /\ Len(heap[call.ret.v].data) = call.key.v + 1

\* C21: setIn([], v) returns fromJS(v) whatever the receiver is: v itself
\* for a scalar, a container made by this call (never the receiver or one of
\* its entries) that converts back to v for a plain structure; the receiver
\* is as it was.
C21_SetInEmptyPath ==
  [][(call'.op = "setIn" /\ call'.path = << >> /\ nCalls' = nCalls + 1) =>
       /\ IsFromJSOf(heap', call'.ret, call'.value)
       /\ isImmutable(call'.ret) => call'.ret.v > Len(heap)
       /\ heap'[call'.recv] = heap[call'.recv]]_vars

\* C21 witness: setIn([], plain object) on a Map that has entries returned
\* another Map, with the entries of the plain object only.
C21_Witness ==
  /\ call.op = "setIn" /\ call.path = << >>
  /\ heap[call.recv].kind = "Map" /\ Keys(heap[call.recv].data) = {"a", "b"}
  /\ call.value.t = "obj"
  /\ IsMap(heap, call.ret) /\ Keys(heap[call.ret.v].data) = {"a"}

\* What set / setIn would return for the value the updater gives.
ReadThenSetIn(h, a, path, fn) ==
  SetInOf(h, Ref(a), path, ApplyFn(fn, GetInLoop(h, Ref(a), path, JsUndefined)))
ReadThenSet(h, a, key, fn) ==
  IF h[a].kind = "Map"
    THEN MapSet(h, a, key, ApplyFn(fn, MapGet(h, a, key, JsUndefined)))
    ELSE ListSet(h, a, key, ApplyFn(fn, ListGet(h, a, key, JsUndefined)))

\* C22 (as claimed): updateIn(p, f) returns what setIn(p, f(getIn(p)))
\* returns, for every path, the empty one included, and Map.update(k, f)
\* returns what set(k, f(get(k))) returns: the same scalar, or a container
\* that converts to the same plain structure; a plain object that f returns
\* is never handed back unconverted.
C22_UpdateIsReadThenSet ==
  [][(nCalls' = nCalls + 1 /\ call'.fn \in UpdaterFns) =>
       /\ call'.op = "updateIn" =>
            LET r == ReadThenSetIn(heap, call'.recv, call'.path, call'.fn)
            IN /\ isImmutable(call'.ret) = isImmutable(r.v)
               /\ toJS(heap', call'.ret) = toJS(r.h, r.v)
       /\ (call'.op = "update" /\ heap[call'.recv].kind = "Map") =>
            LET r == ReadThenSet(heap, call'.recv, call'.key, call'.fn)
            IN /\ isImmutable(call'.ret) = isImmutable(r.v)
               /\ toJS(heap', call'.ret) = toJS(r.h, r.v)]_vars

\* C22 with the empty path left out.
C22_NonEmptyPath ==
  [][(nCalls' = nCalls + 1 /\ call'.fn \in UpdaterFns /\ call'.path # << >>) =>
       /\ call'.op = "updateIn" =>
            LET r == ReadThenSetIn(heap, call'.recv, call'.path, call'.fn)
            IN call'.ret = r.v /\ heap' = r.h]_vars

\* C23 (as claimed): List.update(i, f) returns the receiver exactly when i is
\* not an index of the List (i < 0 or i >= length); at an index it returns a
\* new List of the same length with fromJS(f(element i)) at i and the other
\* elements as they were.  Map.update(k, f) returns a new Map with
\* fromJS(f(get(k))) under k, f being given undefined when k is absent.
C23_ListUpdateNoOp ==
  (call.op = "update" /\ call.fn \in UpdaterFns) =>
    IF heap[call.recv].kind = "List"
      THEN LET old == heap[call.recv].data
               i == call.key.v
           IN IF i < 0 \/ i >= Len(old) THEN call.ret = Ref(call.recv)
              ELSE /\ IsList(heap, call.ret) /\ call.ret # Ref(call.recv)
                   /\ LET new == heap[call.ret.v].data
                      IN /\ Len(new) = Len(old)
                         /\ IsFromJSOf(heap, new[i + 1], ApplyFn(call.fn, old[i + 1]))
                         /\ \A j \in 1..Len(old) : j # i + 1 => new[j] = old[j]
      ELSE /\ IsMap(heap, call.ret) /\ call.ret # Ref(call.recv)
           /\ IsFromJSOf(heap, heap[call.ret.v].data[KeyStr(call.key)],
                         ApplyFn(call.fn, MapGet(heap, call.recv, call.key, JsUndefined)))

\* C23 where the element at i is not undefined.
C23_DefinedElements ==
  (call.op = "update" /\ heap[call.recv].kind = "List"
     /\ JsUndefined \notin Range(heap[call.recv].data)) => C23_ListUpdateNoOp

\* C24: on a List of length n, delete(i) with 0 <= i < n returns a new List
\* of length n - 1 whose elements below i are the receiver's and whose
\* element at j - 1 is the receiver's element at j for every j > i; delete(i)
\* with i < 0 or i >= n returns the receiver.
C24_ListDelete ==
  call.op = "delete" =>
    LET old == heap[call.recv].data
        n == Len(old)
        i == call.key.v
    IN IF i < 0 \/ i >= n THEN call.ret = Ref(call.recv)
       ELSE /\ IsList(heap, call.ret) /\ call.ret # Ref(call.recv)
            /\ LET new == heap[call.ret.v].data
               IN /\ Len(new) = n - 1
                  /\ \A j \in 1..i : new[j] = old[j]
                  /\ \A j \in (i + 2)..n : new[j - 1] = old[j]

\* C24 witness: delete(0) on a List of two or more elements returned a List
\* that starts with the receiver's second element.
C24_Witness ==
  /\ call.op = "delete" /\ call.key = Num(0)
  /\ Len(heap[call.recv].data) >= 2
  /\ IsList(heap, call.ret)
  /\ Len(heap[call.ret.v].data) = Len(heap[call.recv].data) - 1
  /\ heap[call.ret.v].data[1] = heap[call.recv].data[2]
  /\ heap[call.ret.v].data[1] # heap[call.recv].data[1]

\* C25 (as claimed): update and updateIn given a value that is not a
\* function throw, whatever the receiver and the key, index or path are, and
\* return nothing.
C25_NonFunctionThrows ==
  (call.op \in {"update", "updateIn"} /\ call.fn \in NonFunctions) => call.ret = TypeError

\* C25 for Map.update and updateIn, that is, List.update left out.
C25_ThrowsWhereCalled ==
  (/\ call.op \in {"update", "updateIn"} /\ call.fn \in NonFunctions
   /\ call.op = "update" => heap[call.recv].kind = "Map") => call.ret = TypeError

--------------------------------------------------------------------------
\* Properties of the conversions and the readers (checked under SpecQuery).

\* C15: toJS of the container fromJS made of a plain structure gives that
\* plain structure back: same shape, same keys and indices, same leaves.
C15_RoundTrip ==
  (call.op = "toJS" /\ call.recv = root) => call.ret = plain

\* C15 witness: the round trip of a structure with a nested object or array.
C15_Witness ==
  /\ call.op = "toJS" /\ call.recv = root
  /\ \E x \in Entries(heap[root]) : isImmutable(x)
  /\ call.ret.t \in {"arr", "obj"}

\* C16: fromJS of a container is that container and fromJS of a scalar is the
\* scalar, without constructing anything; fromJS of a plain structure is a
\* container, and fromJS of that result is the same reference again.
C16_FromJSIdempotent ==
  /\ [](call.op = "fromJS" =>
          /\ call.value.t \notin {"arr", "obj"} => call.ret = call.value
          /\ call.value.t \in {"arr", "obj"} =>
               /\ isImmutable(call.ret)
               /\ fromJS(heap, call.ret) = [h |-> heap, v |-> call.ret])
  /\ [][(call'.op = "fromJS" /\ nCalls' # nCalls /\ call'.value.t \notin {"arr", "obj"})
          => heap' = heap]_vars

\* C16 witness: fromJS was called on the container an earlier fromJS built.
C16_Witness ==
  /\ call.op = "fromJS"
  /\ call.value = Ref(root)
  /\ call.ret = Ref(root)

\* Structural deep equality: same kind, same size, recursively equal values
\* under every key / index.  sameRef: the same instance is equal to itself
\* whatever it holds; nanEqual: a NaN leaf is equal to a NaN leaf.
RECURSIVE DeepEqual(_, _, _, _, _)
DeepEqual(h, x, y, sameRef, nanEqual) ==
  IF isImmutable(x) /\ isImmutable(y)
    THEN \/ sameRef /\ x = y
         \/ /\ h[x.v].kind = h[y.v].kind
            /\ IF h[x.v].kind = "Map"
                 THEN /\ Keys(h[x.v].data) = Keys(h[y.v].data)
                      /\ \A k \in Keys(h[x.v].data) :
                           DeepEqual(h, h[x.v].data[k], h[y.v].data[k], sameRef, nanEqual)
                 ELSE /\ Len(h[x.v].data) = Len(h[y.v].data)
                      /\ \A j \in 1..Len(h[x.v].data) :
                           DeepEqual(h, h[x.v].data[j], h[y.v].data[j], sameRef, nanEqual)
    ELSE x = y /\ (nanEqual \/ x.t # "nan")
RECURSIVE NaNFree(_)
NaNFree(p) ==
  CASE p.t = "nan" -> FALSE
    [] p.t = "obj" -> \A k \in Keys(p.v) : NaNFree(p.v[k])
    [] p.t = "arr" -> \A j \in 1..Len(p.v) : NaNFree(p.v[j])
    [] OTHER -> TRUE

\* C17 (as claimed): a.equals(b) is true exactly when a and b are
\* structurally deep-equal; so equals is reflexive and two independent
\* conversions of the same plain structure are equal.
C17_EqualsStructural ==
  call.op = "equals" =>
    /\ call.ret.v <=> DeepEqual(heap, Ref(call.recv), call.value, FALSE, TRUE)
    /\ (isImmutable(call.value) /\ toJS(heap, call.value) = toJS(heap, Ref(call.recv)))
         => call.ret.v

\* C17 (amended): a.equals(b) is true exactly when a and b are the same
\* instance, or the same kind of container with the same size and, under
\* every key / index, two containers that are equals or two values that are
\* ===; equals is reflexive and symmetric, and independent conversions of the
\* same plain structure are equal when it has no NaN leaf.
C17_EqualsStrict ==
  call.op = "equals" =>
    /\ call.ret.v <=> DeepEqual(heap, Ref(call.recv), call.value, TRUE, FALSE)
    /\ EqualsOf(heap, Ref(call.recv), Ref(call.recv))
    /\ isImmutable(call.value) =>
         /\ call.ret.v <=> EqualsOf(heap, call.value, Ref(call.recv))
         /\ (/\ toJS(heap, call.value) = toJS(heap, Ref(call.recv))
             /\ NaNFree(toJS(heap, call.value))) => call.ret.v

\* C17 witness: two different instances holding a nested container were
\* found equal.
C17_Witness ==
  /\ call.op = "equals" /\ call.ret.v
  /\ call.value # Ref(call.recv)
  /\ \E x \in Entries(heap[call.recv]) : isImmutable(x)

\* C20: getIn(path, d) is the value found by following path in the plain
\* form of the receiver when every segment resolves there (an own key of an
\* object, an index 0 <= i < length of an array), and d otherwise; the call
\* changes no container and constructs none.
Missing == [t |-> "missing", v |-> 0]
RECURSIVE PlainWalk(_, _)
PlainWalk(p, path) ==
  IF path = << >> THEN p
  ELSE IF p.t = "obj" /\ p.v[KeyStr(Head(path))] # Absent
    THEN PlainWalk(p.v[KeyStr(Head(path))], Tail(path))
  ELSE IF /\ p.t = "arr" /\ Head(path).t = "num"
          /\ Head(path).v >= 0 /\ Head(path).v < Len(p.v)
    THEN PlainWalk(p.v[Head(path).v + 1], Tail(path))
  ELSE Missing
C20_GetInWalk ==
  /\ [](call.op = "getIn" =>
          LET w == PlainWalk(toJS(heap, Ref(call.recv)), call.path)
          IN IF w = Missing THEN call.ret = call.value
                            ELSE toJS(heap, call.ret) = w)
  /\ [][(call'.op = "getIn" /\ nCalls' # nCalls) => heap' = heap]_vars

\* C20 witness: a two-segment path through a nested List resolved to a leaf,
\* with a default given.
C20_Witness ==
  /\ call.op = "getIn" /\ Len(call.path) = 2
  /\ call.value = Default
  /\ heap[call.recv].kind = "Map"
  /\ IsList(heap, heap[call.recv].data[KeyStr(call.path[1])])
  /\ call.ret = Num(1)


--------------------------------------------------------------------------
\* Properties of the store (checked under SpecStore).

Succeeded == storeCall.op = "dispatch" /\ ~IsThrown(storeCall.ret)

\* C27: createGlobalStore given an initial state that is neither undefined
\* nor a container throws and makes no store; the state of a store it made
\* is a container after every call, and so is what getState() returns; a
\* dispatch whose reducer returns something else throws, keeps the state the
\* store had and calls no listener.
C27_GlobalStatePersistent ==
  /\ storeKind = "global" =>
       /\ isImmutable(currentState)
       /\ isImmutable(getState(storeKind, heap, currentState).v)
  /\ (/\ storeCall.op = "createGlobalStore"
      /\ initialState # JsUndefined /\ ~isImmutable(initialState)) =>
       IsThrown(storeCall.ret) /\ storeKind = "none"
  /\ (storeKind = "global" /\ storeCall.op = "dispatch" /\ storeCall.arg # Str(NoType)) =>
       LET r == reducer(heap, storeCall.before, storeCall.arg.v)
       IN (~IsThrown(r.v) /\ ~isImmutable(r.v)) =>
            /\ IsThrown(storeCall.ret)
            /\ currentState = storeCall.before
            /\ invoked = << >>

\* C27 witness: on a store of createGlobalStore that has a listener and has
\* taken an INCREMENT, the dispatch of FAULTY threw and the state is the one
\* before it.
C27_Witness ==
  /\ storeKind = "global"
  /\ storeCall.op = "dispatch" /\ storeCall.arg = Str("FAULTY")
  /\ IsThrown(storeCall.ret)
  /\ dispatched = << "INCREMENT" >>
  /\ nextListeners # << >>
  /\ currentState = storeCall.before
  /\ toJS(heap, currentState) = Obj(Props(<< <<"a", Num(1)>> >>))

\* reducer(...reducer(reducer(state, a1), a2)..., an)
RECURSIVE FoldActions(_, _, _, _, _)
FoldActions(kind, h, init, state, acts) ==
  IF acts = << >> THEN [h |-> h, v |-> state]
  ELSE LET r == currentReducer(kind, h, init, state, Head(acts))
       IN FoldActions(kind, r.h, init, r.v, Tail(acts))

\* C28: the state of a store is the fold of its reducer over the actions of
\* the dispatches that returned, starting from the initial state it was given
\* or, when that is undefined, from reducer(undefined, INIT), which is the
\* state as soon as the store exists; a dispatch that returns returns its
\* action.
C28_StateIsFold ==
  /\ storeKind # "none" =>
       LET start == IF initialState = JsUndefined
                      THEN currentReducer(storeKind, heap, initialState, JsUndefined, INIT)
                      ELSE [h |-> heap, v |-> initialState]
           fold == FoldActions(storeKind, start.h, initialState, start.v, dispatched)
       IN /\ isImmutable(currentState) = isImmutable(fold.v)
          /\ toJS(heap, currentState) = toJS(fold.h, fold.v)
  /\ Succeeded => storeCall.ret = storeCall.arg

\* C28 witness: a store created without an initial state has taken two
\* INCREMENTs and its state is { a: 2 }.
C28_Witness ==
  /\ storeKind = "store" /\ initialState = JsUndefined
  /\ Succeeded
  /\ dispatched = << "INCREMENT", "INCREMENT" >>
  /\ toJS(heap, currentState) = Obj(Props(<< <<"a", Num(2)>> >>))

InvokedFns == [j \in 1..Len(invoked) |-> invoked[j].fn]

\* C29 (as claimed): a dispatch that returns has called the listeners that
\* were subscribed when it began, each once, in the order they were
\* subscribed in, and each saw the new state; a listener unsubscribed before
\* the dispatch is not among them.
C29_NotifyInOrder ==
  Succeeded =>
    /\ InvokedFns = storeCall.active
    /\ \A j \in 1..Len(invoked) : invoked[j].saw = currentState

\* C29 where no function is passed to subscribe twice.
C29_DistinctListeners ==
  (\A j, k \in 1..Len(subscriptions) :
     subscriptions[j].fn = subscriptions[k].fn => j = k) => C29_NotifyInOrder

\* C30 (as claimed): a dispatch whose reducer returns the state it was given,
\* the same reference, calls no listener.
C30_NoNotifyOnSameState ==
  (Succeeded /\ currentState = storeCall.before) => invoked = << >>
--------------------------------------------------------------------------
\* Properties of a store whose reducer and listeners call it (checked
\* under SpecReentry).

SawOne(h, e) == IsMap(h, e.saw) /\ MapGet(h, e.saw.v, A, JsUndefined) = Num(1)

\* C31: a call of dispatch, getState, subscribe or of an unsubscribe
\* function that has not been used, made while the reducer runs, throws, so
\* the dispatch whose reducer made it throws; a call made while no reducer
\* runs does not throw for that reason: isDispatching is false whenever the
\* host or a listener calls, subscribe and unsubscribe by the host return,
\* every listener reads the state, and a listener's dispatch is carried out.
C31_ReducerGuard ==
  [][ /\ isDispatching' = FALSE
      /\ (/\ storeCall'.op = "dispatch"
          /\ storeCall'.arg.v \in {"DISPATCH_IN_REDUCER", "GETSTATE_IN_REDUCER",
                                   "SUBSCRIBE_IN_REDUCER"})
           => IsThrown(storeCall'.ret)
      /\ (/\ storeCall'.op = "dispatch"
          /\ storeCall'.arg.v = "UNSUBSCRIBE_IN_REDUCER"
          /\ subscriptions # << >>
          /\ subscriptions[1].isSubscribed)
           => IsThrown(storeCall'.ret)
      /\ storeCall'.op \in {"subscribe", "unsubscribe"} => ~IsThrown(storeCall'.ret)
      /\ (storeCall'.op = "dispatch" /\ storeCall'.arg.v = "INCREMENT")
           => /\ ~IsThrown(storeCall'.ret)
              /\ \A i \in DOMAIN invoked' : ~IsThrown(invoked'[i].saw)
              /\ (\E i \in DOMAIN invoked' :
                    invoked'[i].fn = "dn" /\ SawOne(heap', invoked'[i]))
                   => Len(storeCall'.rounds) >= 2
    ]_vars

C31_Witness ==
  /\ storeCall.op = "dispatch"
  /\ storeCall.arg.v = "UNSUBSCRIBE_IN_REDUCER"
  /\ IsThrown(storeCall.ret)
  /\ subscriptions # << >> /\ subscriptions[1].isSubscribed
  /\ dispatched # << >>

\* C38: a dispatch that throws before its listener loop (an action without
\* a type, a reducer that throws, a reducer that dispatches) leaves the
\* state, the listener arrays and the subscriptions as they were, calls no
\* listener and leaves isDispatching false; a valid dispatch that follows
\* it returns its action and stores the reducer's result.
C38_FailedDispatchNoEffect ==
  [][ /\ (storeCall'.op = "dispatch" /\ IsThrown(storeCall'.ret))
           => /\ currentState' = currentState
              /\ nextListeners' = nextListeners
              /\ currentListeners' = currentListeners
              /\ subscriptions' = subscriptions
              /\ dispatched' = dispatched
              /\ invoked' = << >>
              /\ isDispatching' = FALSE
      /\ (/\ storeCall.op = "dispatch" /\ IsThrown(storeCall.ret)
          /\ storeCall'.op = "dispatch" /\ storeCall'.arg.v = "INCREMENT")
           => /\ storeCall'.ret = Str("INCREMENT")
              /\ currentState' # currentState
              /\ Len(dispatched') > Len(dispatched)
              /\ SubSeq(dispatched', 1, Len(dispatched) + 1) = Append(dispatched, "INCREMENT")
    ]_vars

C38_Witness ==
  /\ storeCall.op = "dispatch"
  /\ storeCall.arg.v = "DISPATCH_IN_REDUCER"
  /\ IsThrown(storeCall.ret)
  /\ subscriptions # << >>
  /\ dispatched # << >>

InvokedIn(r) == { invoked[j].fn : j \in { n \in DOMAIN invoked : invoked[n].round = r } }

\* C39: no subscribe or unsubscribe call, made by a listener or by a
\* dispatch that a listener started, modifies an array that a listener loop
\* iterates; every loop, the nested ones included, calls exactly the
\* listeners that were subscribed when it began.
C39_ListenerSnapshot ==
  storeCall.op = "dispatch" =>
    /\ ~storeCall.touched
    /\ \A r \in DOMAIN storeCall.rounds : InvokedIn(r) = Range(storeCall.rounds[r])

C39_Witness ==
  /\ storeCall.op = "dispatch"
  /\ Len(storeCall.rounds) = 2
  /\ "u1" \in Range(storeCall.rounds[1])
  /\ "u1" \notin Range(storeCall.rounds[2])
  /\ "u1" \in InvokedIn(1)

--------------------------------------------------------------------------
\* Properties of the bridge (checked under SpecBridge and SpecSelector).

\* A difference by equals when both values are containers, by identity
\* otherwise.
Differs(h, prev, new) ==
  IF isImmutable(prev) /\ isImmutable(new) THEN ~EqualsOf(h, prev, new)
                                           ELSE ~StrictEqV(prev, new)
CallsTo(calls, k) == SelectSeq(calls, LAMBDA c : c.k = k)
ArgsOf(calls) == [j \in DOMAIN calls |-> calls[j].arg]

\* C32: subscribeToGlobal calls no callback; its reference value is the
\* value selected when it is called.  A dispatch calls the callback of a
\* subscription that is still subscribed once, with the newly selected
\* value, exactly when that value differs from the reference value, which
\* then becomes the new value; it calls no callback of a subscription whose
\* unsubscribe function has been called.
C32_SubscribeToGlobal ==
  [][ /\ storeCall'.op = "subscribeToGlobal"
           => /\ called' = << >>
              /\ Len(bridge') = Len(bridge) + 1
              /\ bridge'[Len(bridge')].last
                   = selectorFn(heap, currentState, storeCall'.arg.v)
      /\ storeCall'.op = "dispatch"
           => \A k \in DOMAIN bridge :
                LET new == selectorFn(heap', currentState', bridge[k].selectorFn)
                    differs == /\ subscriptions[k].isSubscribed
                               /\ Differs(heap', bridge[k].last, new)
                IN /\ ArgsOf(CallsTo(called', k)) = IF differs THEN << new >> ELSE << >>
                   /\ bridge'[k].last = IF differs THEN new ELSE bridge[k].last
    ]_vars

C32_Witness ==
  /\ storeCall.op = "dispatch"
  /\ Len(bridge) = 3
  /\ Len(called) = 1
  /\ isImmutable(called[1].arg)
  /\ \E k \in DOMAIN bridge :
       /\ ~subscriptions[k].isSubscribed
       /\ Differs(heap, bridge[k].last, selectorFn(heap, currentState, bridge[k].selectorFn))
  /\ \E k \in DOMAIN bridge :
       /\ subscriptions[k].isSubscribed
       /\ CallsTo(called, k) = << >>

\* What the change test of createGlobalStateSelector reports.
Reports(h, eq, prev, new) ==
  IF eq = "sameName" THEN ~StrictEqV(NameOf(h, prev), NameOf(h, new))
                     ELSE Differs(h, prev, new)

--------------------------------------------------------------------------
\* Properties of the middleware chain (checked under SpecMiddleware).

Ev(e, mw, a) == Event(e, mw, a, JsUndefined, 0)
Count(e, from, to) == Cardinality({ j \in from..to : trace[j].e = e })
Position(name) ==
  IF \E i \in DOMAIN middlewares : middlewares[i] = name
    THEN CHOOSE i \in DOMAIN middlewares : middlewares[i] = name
    ELSE 0

\* C34: every action handed to the dispatch of the enhanced store or to the
\* dispatch of the middleware API enters the first middleware; the i-th
\* middleware is entered only from the one before it, with the same action,
\* and the store's own dispatch only from the last one; an action that a
\* middleware does not pass on reaches neither the later middlewares nor
\* the store.  Creating the store throws exactly when a middleware
\* dispatches while it is constructed.
C34_MiddlewareOrder ==
  /\ \A j \in DOMAIN trace :
       LET n == Len(middlewares)
           a == trace[j].a
       IN /\ trace[j].e = "call" =>
               /\ j < Len(trace)
               /\ trace[j + 1] = IF n = 0 THEN Ev("base", 0, a) ELSE Ev("enter", 1, a)
          /\ trace[j].e = "enter" =>
               /\ j > 1
               /\ trace[j - 1] = IF trace[j].mw = 1 THEN Ev("call", 0, a)
                                                    ELSE Ev("enter", trace[j].mw - 1, a)
          /\ trace[j].e = "base" =>
               /\ j > 1
               /\ trace[j - 1] = IF n = 0 THEN Ev("call", 0, a) ELSE Ev("enter", n, a)
          /\ (a = "DOUBLE_ADD" /\ Position("double") > 0) =>
               /\ trace[j].e # "base"
               /\ trace[j].e = "enter" => trace[j].mw <= Position("double")
  /\ storeCall.op = "applyMiddleware" =>
       /\ IsThrown(storeCall.ret) <=> \E i \in DOMAIN storeCall.arg.v : storeCall.arg.v[i] = "early"
       /\ IsThrown(storeCall.ret) => storeKind = "none"
  /\ storeCall.op = "dispatch" => trace # << >> /\ trace[1].e = "call"

C34_Witness ==
  /\ middlewares = << "double", "log" >>
  /\ storeCall.op = "dispatch" /\ storeCall.arg.v = "DOUBLE_ADD"
  /\ Count("call", 1, Len(trace)) = 3
  /\ Count("base", 1, Len(trace)) = 2
  /\ \E j \in DOMAIN trace : trace[j] = Ev("after", 2, "INCREMENT")

\* C35: with the thunk middleware in the chain, a dispatched function is
\* called by it and goes no further: it enters no later middleware and not
\* the store's dispatch.  What the function dispatches enters the first
\* middleware, and what it reads with getState is the state that the
\* dispatches completed until then have produced.
C35_Thunk ==
  (storeCall.op = "dispatch" /\ Position("thunk") > 0) =>
    \A j \in DOMAIN trace :
      /\ trace[j].a \in Thunks =>
           /\ trace[j].e \notin {"base", "done"}
           /\ trace[j].e = "enter" =>
                /\ trace[j].mw <= Position("thunk")
                /\ trace[j].mw = Position("thunk") =>
                     (j < Len(trace) /\ trace[j + 1] = Ev("run", trace[j].mw, trace[j].a))
      /\ (trace[j].e = "call" /\ j > 1) =>
           (j < Len(trace) /\ trace[j + 1] = Ev("enter", 1, trace[j].a))
      /\ trace[j].e = "saw" =>
           LET n == Len(dispatched) - Count("done", j, Len(trace))
               start == currentReducer(storeKind, heap, initialState, JsUndefined, INIT)
               fold == FoldActions(storeKind, start.h, initialState, start.v,
                                   SubSeq(dispatched, 1, n))
           IN /\ trace[j].n = n
              /\ toJS(heap, trace[j].v) = toJS(fold.h, fold.v)

C35_Witness ==
  /\ middlewares = << "log", "thunk" >>
  /\ storeCall.op = "dispatch" /\ storeCall.arg.v = "parent"
  /\ ~IsThrown(storeCall.ret)
  /\ \E j, k \in DOMAIN trace :
       /\ j < k
       /\ trace[j].e = "saw" /\ trace[k].e = "saw"
       /\ trace[j].v # trace[k].v
  /\ \E j \in DOMAIN trace : trace[j] = Ev("run", 2, "fetch")

--------------------------------------------------------------------------
\* Properties of the persisting middleware (checked under SpecPersist).

\* The text of the state that the first n dispatches produce.
TextAfter(n) ==
  LET start == currentReducer(storeKind, heap, initialState, JsUndefined, INIT)
      fold == FoldActions(storeKind, start.h, initialState, start.v,
                          SubSeq(dispatched, 1, n))
  IN serializer(toJS(fold.h, fold.v))

\* The k-th dispatch ends a burst: no dispatch followed it before the wait
\* had passed.
EndsBurst(k) ==
  \/ k < Len(persist.times) /\ persist.times[k + 1] - persist.times[k] >= persist.wait
  \/ k = Len(persist.times) /\ persist.now - persist.times[k] >= persist.wait
BurstOver(k) ==
  \/ k < Len(persist.times) /\ persist.times[k + 1] - persist.times[k] >= persist.wait
  \/ k = Len(persist.times) /\ persist.now - persist.times[k] >= persist.wait /\ ~TimerDue

\* C36: with throttleWait = 0 every dispatch calls setItem once, at once,
\* with the text of the state after that dispatch.  With throttleWait = w > 0
\* setItem is called only when w has passed since the latest dispatch with
\* no dispatch since; every burst of dispatches, each less than w after the
\* one before it, gets exactly one setItem, and that carries the text of the
\* state after the last dispatch of the burst.
C36_DebouncedPersistence ==
  middlewares = << "persist" >> =>
    /\ Len(persist.times) = Len(dispatched)
    /\ persist.wait = 0 =>
         /\ Len(persist.saved) = Len(dispatched)
         /\ \A j \in DOMAIN persist.saved :
              /\ persist.saved[j].n = j
              /\ persist.saved[j].at = persist.times[j]
              /\ persist.saved[j].value = TextAfter(j)
    /\ persist.wait > 0 =>
         /\ \A j \in DOMAIN persist.saved :
              /\ persist.saved[j].n \in DOMAIN persist.times
              /\ EndsBurst(persist.saved[j].n)
              /\ persist.saved[j].at - persist.times[persist.saved[j].n] >= persist.wait
              /\ persist.saved[j].value = TextAfter(persist.saved[j].n)
              /\ \A k \in DOMAIN persist.saved : k # j => persist.saved[k].n # persist.saved[j].n
         /\ \A k \in DOMAIN persist.times :
              BurstOver(k) => \E j \in DOMAIN persist.saved : persist.saved[j].n = k

C36_Witness ==
  /\ middlewares = << "persist" >>
  /\ persist.wait = 2
  /\ Len(persist.times) = 2
  /\ persist.times[2] - persist.times[1] = 1
  /\ Len(persist.saved) = 1
  /\ persist.saved[1].n = 2
  /\ persist.saved[1].value # TextAfter(1)

====
